---------------------------- MODULE Spec2Model ----------------------------
(***************************************************************************)
(* A model of the closed-loop aim / placement controller of the voxel      *)
(* agent scripts (house_builder.py, build_wall.py, nav_test.py,            *)
(* aim_test.py).                                                            *)
(*                                                                         *)
(* Numbers are fixed point.  Angles are integers counting tenths of a      *)
(* degree (Deg(1) units per degree); world coordinates are integers        *)
(* counting hundredths of a block (Blocks(1) units per block).  Arithmetic *)
(* on these integers is exact: the rounding of IEEE doubles is not part of *)
(* the model.                                                              *)
(***************************************************************************)
EXTENDS Integers, Sequences, FiniteSets, TLC

VARIABLES
    fn,        \* the function (or loop) whose call is being modelled
    pc,        \* position of the controller inside that call
    args,      \* the arguments of the call
    loc,       \* the locals of the call (a record)
    ret,       \* the value returned by the call (None until it returns)
    pose,      \* self.pose: pose of the latest state frame
    raycast,   \* self.raycast / self.ray: raycast of the latest state frame
    result,    \* Builder.result: the last non-null last_action_result seen
    wait,      \* state frames the controller still has to consume, and
               \* where it goes on after them
    sent,      \* counters of the actions sent during the call, by type
    inflight,  \* the action sent that the simulation has not yet taken up
    nframes,   \* state frames consumed during the call
    sim,       \* how the simulation answers look actions: "exact" or "any"
    bk,        \* Builder bookkeeping: ok, retry, log
    out,       \* the last classification line printed by the call
    hist       \* what was observed earlier in the call (history variable):
               \* whether the residual at entry was below / above tolerance,
               \* and whether the residual grew over the last look action

vars == <<fn, pc, args, loc, ret, pose, raycast, result, wait, sent, inflight,
          nframes, sim, bk, out, hist>>

None == "None"

\* no action on the wire
NoAction == [type |-> "none"]

----------------------------------------------------------------------------
(* Fixed-point scales and the thresholds of the solver.                    *)

\* n degrees, n tenths of a degree
Deg(n) == n * 10
Tenths(n) == n

\* n blocks, n hundredths of a block
Blocks(n) == n * 100
Centi(n) == n

HalfTurn == Deg(180)
FullTurn == Deg(360)
PitchLimit == Deg(89)

Abs(n) == IF n < 0 THEN -n ELSE n
Max(a, b) == IF a > b THEN a ELSE b
Min(a, b) == IF a < b THEN a ELSE b

----------------------------------------------------------------------------
(* math.sqrt and math.degrees(math.atan2(y, x)) on fixed-point numbers.    *)

RECURSIVE ISqrtR(_, _, _)
ISqrtR(n, lo, hi) ==
    IF lo >= hi THEN lo
    ELSE LET mid == (lo + hi + 1) \div 2
         IN  IF mid * mid <= n THEN ISqrtR(n, mid, hi) ELSE ISqrtR(n, lo, mid - 1)

\* floor of the square root of n, 0 <= n < 2^31
ISqrt(n) == ISqrtR(n, 0, 46340)

\* atan(2^-i) in millionths of a degree, i = 0 .. 19
CordicAtan == <<45000000, 26565051, 14036243, 7125016, 3576334, 1789911,
                895174, 447614, 223811, 111906, 55953, 27976, 13988, 6994,
                3497, 1749, 874, 437, 219, 109>>

RECURSIVE Cordic(_, _, _, _)
Cordic(x, y, i, acc) ==
    IF i >= Len(CordicAtan) \/ y = 0 THEN acc
    ELSE LET p == 2 ^ i
         IN  IF y > 0
             THEN Cordic(x + (y \div p), y - (x \div p), i + 1, acc + CordicAtan[i + 1])
             ELSE Cordic(x - (y \div p), y + (x \div p), i + 1, acc - CordicAtan[i + 1])

\* atan(a / b) for 0 <= a <= b, b > 0, in angle units, rounded to nearest
AtanOctant(a, b) ==
    LET k == (2 ^ 29) \div b
        micro == Cordic(b * k, a * k, 0, 0)
        unit == 1000000 \div Deg(1)
    IN  (micro + unit \div 2) \div unit

\* atan2(y, x) for x >= 0, y >= 0, not both 0
AtanQuadrant(y, x) ==
    IF y <= x THEN AtanOctant(y, x) ELSE Deg(90) - AtanOctant(x, y)

\* math.degrees(math.atan2(y, x)), a value in [-180, 180] degrees
ATan2(y, x) ==
    IF x = 0 /\ y = 0 THEN 0
    ELSE IF x >= 0 /\ y >= 0 THEN AtanQuadrant(y, x)
    ELSE IF x >= 0 THEN -AtanQuadrant(-y, x)
    ELSE IF y >= 0 THEN HalfTurn - AtanQuadrant(y, -x)
    ELSE -HalfTurn + AtanQuadrant(-y, -x)

\* math.degrees(math.atan2(dy, math.sqrt(h2))): the horizontal distance is
\* carried to 1/16 of a position unit
ATan2Hyp(dy, h2) ==
    IF h2 < 2 ^ 22
    THEN ATan2(dy * 16, ISqrt(h2 * 256))
    ELSE ATan2(dy, ISqrt(h2))

\* the straight-up / straight-down branch never taken
HorizontalDegenerate_Never(h2) == FALSE

\* horizontal_dist < 0.001 (blocks), on squares: with u position units per
\* block, h / u < 1 / 1000 is h2 * (1000 / u)^2 < 1
HorizontalDegenerate(h2) == h2 * ((1000 \div Blocks(1)) ^ 2) < 1

----------------------------------------------------------------------------
(* Geometry solver.                                                        *)

\* "if" for "while": one turn taken off at most
WrapDown_Once(a) == IF a > Deg(180) THEN a - Deg(360) ELSE a

\* while a > 180: a -= 360
RECURSIVE WrapDown(_)
WrapDown(a) == IF a > HalfTurn THEN WrapDown(a - FullTurn) ELSE a

\* while a < -180: a += 360
RECURSIVE WrapUp(_)
WrapUp(a) == IF a < -HalfTurn THEN WrapUp(a + FullTurn) ELSE a

\* nav_test.normalize_angle
normalize_angle(a) == WrapUp(WrapDown(a))

\* build_wall.norm_angle
norm_angle(a) == WrapUp(WrapDown(a))

\* the clamp left out
ClampPitch_Missing(p) == p

\* the clamp of the target pitch: max(-89.0, min(89.0, target_pitch))
ClampPitch(p) == Max(-PitchLimit, Min(PitchLimit, p))

\* target_yaw and target_pitch before clamping: both branches of the solver
TargetAngles(dx, dy, dz, cur_yaw) ==
    LET h2 == dx * dx + dz * dz
    IN  IF HorizontalDegenerate(h2)
        THEN [yaw |-> cur_yaw, pitch |-> IF dy > 0 THEN PitchLimit ELSE -PitchLimit]
        ELSE [yaw |-> ATan2(dz, dx), pitch |-> ATan2Hyp(dy, h2)]

\* calc_look_delta with the deltas taken the wrong way round
calc_look_delta_Reversed(cx, cy, cz, cur_yaw, cur_pitch, tx, ty, tz) ==
    LET t == TargetAngles(tx - cx, ty - cy, tz - cz, cur_yaw)
        target_pitch == ClampPitch(t.pitch)
    IN  <<WrapUp(WrapDown(cur_yaw - t.yaw)), cur_pitch - target_pitch>>

\* house_builder.calc_look_delta (aim_test.calc_look_delta is the same code)
calc_look_delta(cx, cy, cz, cur_yaw, cur_pitch, tx, ty, tz) ==
    LET t == TargetAngles(tx - cx, ty - cy, tz - cz, cur_yaw)
        target_pitch == ClampPitch(t.pitch)
        delta_yaw == t.yaw - cur_yaw
        delta_pitch == target_pitch - cur_pitch
    IN  <<WrapUp(WrapDown(delta_yaw)), delta_pitch>>

\* build_wall.look_delta
look_delta(cx, cy, cz, cyaw, cpitch, tx, ty, tz) ==
    LET t == TargetAngles(tx - cx, ty - cy, tz - cz, cyaw)
        tpitch == ClampPitch(t.pitch)
    IN  <<norm_angle(t.yaw - cyaw), tpitch - cpitch>>

----------------------------------------------------------------------------
(* Values shared by the specifications.                                    *)

\* d.get(k, default) on a dict modelled as a function
Get(d, k, default) == IF k \in DOMAIN d THEN d[k] ELSE default

\* the dict {}
EmptyDict == [k \in {} |-> None]

NoSent == [look |-> 0, move |-> 0, jump |-> 0, use |-> 0, attack |-> 0]
NoBook == [ok |-> 0, retry |-> 0, log |-> <<>>]

\* the eye of a player standing in the middle of block (0, 0, 0)
EyePos == [x |-> Centi(50), y |-> Centi(162), z |-> Centi(50)]

PoseAt(p, yaw, pitch) ==
    [x |-> p.x, y |-> p.y, z |-> p.z, yaw |-> yaw, pitch |-> pitch]

\* the raycasts a state frame may carry
RayTop == [hit_type |-> "block", hit_normal |-> "TOP", hit_id |-> "stone"]
RaySide == [hit_type |-> "block", hit_normal |-> "WEST", hit_id |-> "stone"]
RayGrass == [hit_type |-> "block", hit_normal |-> "TOP", hit_id |-> "grass"]
RayEntity == [hit_type |-> "entity", hit_normal |-> "TOP", hit_id |-> "pig"]
RayNone == [hit_type |-> "none", hit_normal |-> "NONE", hit_id |-> "none"]

----------------------------------------------------------------------------
(* Specification SpecGeom: the geometry solver applied to bounded inputs.  *)

MaxCoord == 2
MaxQuarterTurns == 6

\* target offsets from the eye: whole blocks, and a hundredth of a block
\* either way (a target almost straight above or below)
GeomOffsets == {Blocks(k) : k \in -MaxCoord .. MaxCoord} \cup {Centi(-1), Centi(1)}
GeomYaws == {Deg(90) * k : k \in -MaxQuarterTurns .. MaxQuarterTurns}
GeomPitches == {-PitchLimit, 0, Deg(30), PitchLimit}

GeomInputs ==
    [cx : {EyePos.x}, cy : {EyePos.y}, cz : {EyePos.z},
     yaw : GeomYaws, pitch : GeomPitches,
     tx : {EyePos.x + d : d \in GeomOffsets},
     ty : {EyePos.y + d : d \in GeomOffsets},
     tz : {EyePos.z + d : d \in GeomOffsets}]

\* the bearing with the arguments of atan2 exchanged: 0 along +Z
calc_yaw_to_target_Swapped(cx, cz, tx, tz) == ATan2(tx - cx, tz - cz)

\* nav_test.calc_yaw_to_target
calc_yaw_to_target(cx, cz, tx, tz) == ATan2(tz - cz, tx - cx)

NoWait == [n |-> 0, cont |-> None]

GeomIdle ==
    /\ loc = None /\ pose = None /\ raycast = None /\ result = None
    /\ wait = NoWait /\ sent = NoSent /\ inflight = NoAction /\ nframes = 0
    /\ sim = None /\ bk = NoBook /\ out = None /\ hist = None

GeomInit ==
    /\ fn = None /\ pc = "call" /\ ret = None
    /\ args \in GeomInputs
    /\ GeomIdle

GeomReturn(f, v) ==
    /\ pc = "call"
    /\ fn' = f /\ ret' = v /\ pc' = "done"
    /\ UNCHANGED <<args, loc, pose, raycast, result, wait, sent, inflight,
                   nframes, sim, bk, out, hist>>

GeomCalcLookDelta ==
    GeomReturn("calc_look_delta",
               calc_look_delta(args.cx, args.cy, args.cz, args.yaw, args.pitch,
                               args.tx, args.ty, args.tz))

GeomLookDelta ==
    GeomReturn("look_delta",
               look_delta(args.cx, args.cy, args.cz, args.yaw, args.pitch,
                          args.tx, args.ty, args.tz))

\* the yaw delta of face_direction: normalize_angle(target_yaw - cur_yaw)
GeomNormalizeAngle ==
    GeomReturn("normalize_angle",
               <<normalize_angle(calc_yaw_to_target(args.cx, args.cz, args.tx, args.tz)
                                 - args.yaw), 0>>)

GeomNext == GeomCalcLookDelta \/ GeomLookDelta \/ GeomNormalizeAngle

SpecGeom == GeomInit /\ [][GeomNext]_vars

\* the bearing the solver aims for, before the delta is taken
GeomTargetYaw ==
    IF fn = "normalize_angle"
    THEN calc_yaw_to_target(args.cx, args.cz, args.tx, args.tz)
    ELSE TargetAngles(args.tx - args.cx, args.ty - args.cy, args.tz - args.cz,
                      args.yaw).yaw

\* C1: the yaw delta returned by the solver is at most 180 degrees in
\* absolute value and differs from target_yaw - current_yaw by a whole
\* number of turns.
C1_YawDeltaNormalized ==
    pc = "done" =>
        /\ Abs(ret[1]) <= Deg(180)
        /\ (ret[1] - (GeomTargetYaw - args.yaw)) % Deg(360) = 0

\* a call whose raw delta needs more than one turn taken off
C1_Witness ==
    /\ pc = "done"
    /\ GeomTargetYaw - args.yaw > Deg(540)
    /\ Abs(ret[1]) <= Deg(180)

\* C2: the pitch the solver aims for, current_pitch + delta_pitch, lies in
\* [-89, 89] degrees for every input.
C2_PitchWithinLimit ==
    (pc = "done" /\ fn \in {"calc_look_delta", "look_delta"}) =>
        /\ args.pitch + ret[2] >= -Deg(89)
        /\ args.pitch + ret[2] <= Deg(89)

\* a target two blocks up and a hundredth of a block away: its elevation is
\* above 89 degrees and the solver aims at exactly 89
C2_Witness ==
    /\ pc = "done" /\ fn = "calc_look_delta"
    /\ args.tx - args.cx = Centi(1) /\ args.tz = args.cz
    /\ args.ty - args.cy = Blocks(2)
    /\ args.pitch = -PitchLimit
    /\ args.pitch + ret[2] = Deg(89)

\* the offset of the target from the eye
GeomDx == args.tx - args.cx
GeomDy == args.ty - args.cy
GeomDz == args.tz - args.cz

GeomSolver == {"calc_look_delta", "look_delta"}

\* C22: when the target is straight above or below the eye (horizontal
\* distance below 0.001 block) the solver returns a yaw delta of 0 and aims
\* at a pitch of +89 degrees if the target is higher than the eye, -89
\* degrees otherwise.
C22_VerticalDegeneracy ==
    (pc = "done" /\ fn \in GeomSolver /\ GeomDx = 0 /\ GeomDz = 0) =>
        /\ ret[1] = 0
        /\ args.pitch + ret[2] = (IF GeomDy > 0 THEN Deg(89) ELSE -Deg(89))

\* a level player turned a quarter turn away from +X, target straight above:
\* the heading is kept and the pitch goes to +89
C22_Witness ==
    /\ pc = "done" /\ fn = "calc_look_delta"
    /\ GeomDx = 0 /\ GeomDz = 0 /\ GeomDy = Blocks(2)
    /\ args.yaw = Deg(90) /\ args.pitch = 0
    /\ ret = <<0, Deg(89)>>

\* C23: the yaw delta returned lies in the half-open interval (-180, 180]
\* degrees: -180 is never returned.
C23_HalfOpenInterval ==
    pc = "done" => (ret[1] > -Deg(180) /\ ret[1] <= Deg(180))

\* C24: bearings follow atan2(dz, dx): a player at yaw 0 is told to turn by
\* 0 for a target along +X, +90 along +Z, -90 along -Z, 180 along -X, and
\* +45 / -135 along the diagonals, by the solver and by the yaw of
\* calc_yaw_to_target alike; a level player at yaw 0 with the target level
\* along +X gets the delta (0, 0).
C24_YawConvention ==
    (pc = "done" /\ args.yaw = 0) =>
        /\ (GeomDz = 0 /\ GeomDx > 0) => ret[1] = Deg(0)
        /\ (GeomDx = 0 /\ GeomDz > 0) => ret[1] = Deg(90)
        /\ (GeomDx = 0 /\ GeomDz < 0) => ret[1] = -Deg(90)
        /\ (GeomDz = 0 /\ GeomDx < 0) => ret[1] = Deg(180)
        /\ (GeomDx = GeomDz /\ GeomDx > 0) => ret[1] = Deg(45)
        /\ (GeomDx = GeomDz /\ GeomDx < 0) => ret[1] = -Deg(135)
        /\ (fn \in GeomSolver /\ args.pitch = 0 /\ GeomDy = 0 /\ GeomDz = 0
              /\ GeomDx > 0) => ret = <<0, 0>>

\* the bearing of calc_yaw_to_target for a target along +Z
C24_Witness ==
    /\ pc = "done" /\ fn = "normalize_angle"
    /\ args.yaw = 0 /\ GeomDx = 0 /\ GeomDz = Blocks(2)
    /\ ret[1] = Deg(90)

\* a solver result is a pair (delta_yaw, delta_pitch)
IsLookDelta(v) == Len(v) = 2

\* C25: a target on the eye itself (dx = dy = dz = 0) is reported to the
\* caller as an error, not answered with a look delta.
C25_CoincidentIsError ==
    (pc = "done" /\ fn \in GeomSolver /\ GeomDx = 0 /\ GeomDy = 0 /\ GeomDz = 0) =>
        ~IsLookDelta(ret)

----------------------------------------------------------------------------
(* Specification SpecConv: one call of a convergence loop against a        *)
(* simulation that answers each look action exactly (sim = "exact") or in  *)
(* any way at all (sim = "any").                                           *)

LapMaxAttempts == 5
FaceMaxSteps == 10
TccMaxAttempts == 10
BenchMaxAttempts == 8

\* state frames consumed after a look action before the next measurement
SettleTicks == 2

MaxConvTurns == 2

ConvFns == {"look_at_precise", "face_direction",
            "test_correction_convergence", "test_lookat_precise_benchmark"}

\* observed orientations: quarter turns, and yaws and pitches a few tenths
\* of a degree around the tolerances
ConvYaws == {Deg(90) * k : k \in -MaxConvTurns .. MaxConvTurns}
            \cup {Tenths(e) : e \in {-11, -10, 4, 5}}
ConvPitches == {Tenths(e) : e \in {-5, 0, 4}} \cup {Deg(30)}
ConvPoses == {PoseAt(EyePos, y, p) : y \in ConvYaws, p \in ConvPitches}
ConvRays == {RayTop, RayNone}

\* the target point: three blocks east of the eye and level with it
ConvTarget == [tx |-> EyePos.x + Blocks(3), ty |-> EyePos.y, tz |-> EyePos.z]

ConvArgs(f) ==
    IF f = "face_direction"
    THEN {[target_yaw |-> 0, max_steps |-> FaceMaxSteps, tolerance |-> Deg(1)],
          [target_yaw |-> Deg(180), max_steps |-> FaceMaxSteps,
           tolerance |-> Tenths(5)]}
    ELSE IF f = "look_at_precise"
    THEN {[tx |-> ConvTarget.tx, ty |-> ConvTarget.ty, tz |-> ConvTarget.tz,
           max_attempts |-> LapMaxAttempts]}
    ELSE {ConvTarget}

ConvLocals(f) ==
    CASE f = "look_at_precise" -> [attempt |-> 0]
      [] f = "face_direction" -> [i |-> 0, steps |-> 0]
      [] f = "test_correction_convergence" ->
            [attempt |-> 0, iterations |-> <<>>, final |-> -1]
      [] f = "test_lookat_precise_benchmark" ->
            [attempt |-> 0, attempts |-> 0, converged |-> FALSE]

\* the look delta a loop computes from the observed pose p
ConvDelta(f, a, p) ==
    IF f = "face_direction"
    THEN <<normalize_angle(a.target_yaw - p.yaw), -p.pitch>>
    ELSE calc_look_delta(p.x, p.y, p.z, p.yaw, p.pitch, a.tx, a.ty, a.tz)

\* residual = math.sqrt(dyaw**2 + dpitch**2), squared
Residual2(d) == d[1] * d[1] + d[2] * d[2]

\* the tolerance test turned into a test for an exact aim
LapWithin_Exact(d) == d[1] = 0 /\ d[2] = 0

\* abs(dy) < 0.5 and abs(dp) < 0.5
LapWithin(d) == Abs(d[1]) < Tenths(5) /\ Abs(d[2]) < Tenths(5)

\* abs(dyaw) < 0.5 and abs(dpitch) < 0.5
BenchWithin(d) == Abs(d[1]) < Tenths(5) /\ Abs(d[2]) < Tenths(5)

\* residual < 0.5
TccWithin(d) == Residual2(d) < Tenths(5) * Tenths(5)

\* the tolerance test a degree too wide
FaceWithin_Loose(delta, tolerance) == Abs(delta) <= tolerance + Deg(1)

\* abs(delta) <= tolerance
FaceWithin(delta, tolerance) == Abs(delta) <= tolerance

\* the residual of pose p is strictly below the tolerance of the call
BelowTolerance(f, a, p) ==
    LET d == ConvDelta(f, a, p)
    IN  IF f = "face_direction"
        THEN Abs(d[1]) < a.tolerance
        ELSE Residual2(d) < Tenths(5) * Tenths(5)

\* the residual of pose p is above the tolerance of the call in some component
AboveTolerance(f, a, p) ==
    LET d == ConvDelta(f, a, p)
    IN  IF f = "face_direction"
        THEN Abs(d[1]) > a.tolerance
        ELSE Abs(d[1]) >= Tenths(5) \/ Abs(d[2]) >= Tenths(5)

ConvInit ==
    /\ fn \in ConvFns
    /\ args \in ConvArgs(fn)
    /\ loc = ConvLocals(fn)
    /\ pc = "head" /\ ret = None
    /\ pose \in ConvPoses
    /\ raycast \in ConvRays
    /\ sim \in {"exact", "any"}
    /\ hist = [entryBelow |-> BelowTolerance(fn, args, pose),
               entryAbove |-> AboveTolerance(fn, args, pose),
               grew |-> FALSE]
    /\ result = None /\ wait = NoWait /\ sent = NoSent /\ inflight = NoAction
    /\ nframes = 0 /\ bk = NoBook /\ out = None

LookAction(dy, dp) == [type |-> "action_look", yaw |-> dy, pitch |-> dp]

\* send_action / send / cmd: the action goes on the wire
Send(a, kind) ==
    /\ inflight' = a
    /\ sent' = [sent EXCEPT ![kind] = @ + 1]

\* the look followed by a single state frame
SendLookAndSettle_OneFrame(d, cont) ==
    /\ Send(LookAction(d[1], d[2]), "look")
    /\ wait' = [n |-> 1, cont |-> cont]
    /\ pc' = "wait"

\* the loop sends the look delta d and then consumes SettleTicks frames
SendLookAndSettle(d, cont) ==
    /\ Send(LookAction(d[1], d[2]), "look")
    /\ wait' = [n |-> SettleTicks, cont |-> cont]
    /\ pc' = "wait"

Return(v) == pc' = "done" /\ ret' = v

\* the poses the next state frame may report
SimPoses ==
    IF sim = "exact"
    THEN {IF inflight.type = "action_look"
          THEN [pose EXCEPT !.yaw = @ + inflight.yaw, !.pitch = @ + inflight.pitch]
          ELSE pose}
    ELSE ConvPoses

\* HouseBuilder.recv_state, NavTester.recv_state, AimTester.recv_state
RecvState ==
    /\ pc = "wait" /\ fn \in ConvFns /\ wait.n > 0
    /\ \E p \in SimPoses, r \in ConvRays :
          /\ pose' = p
          /\ raycast' = r
          /\ hist' = [hist EXCEPT !.grew =
                         IF inflight.type = "action_look"
                         THEN Residual2(ConvDelta(fn, args, p))
                                 > Residual2(ConvDelta(fn, args, pose))
                         ELSE @]
    /\ nframes' = nframes + 1
    /\ inflight' = NoAction
    /\ wait' = [wait EXCEPT !.n = @ - 1]
    /\ pc' = IF wait.n = 1 THEN wait.cont ELSE "wait"
    /\ UNCHANGED <<fn, args, loc, ret, result, sent, sim, bk, out>>

\* look_at_precise as a loop without its attempt bound
LookAtPrecise_Unbounded ==
    /\ pc = "head" /\ fn = "look_at_precise"
    /\ LET d == ConvDelta(fn, args, pose)
       IN  IF LapWithin(d)
           THEN /\ Return(raycast)
                /\ UNCHANGED <<loc, wait, sent, inflight>>
           ELSE /\ SendLookAndSettle(d, "head")
                /\ loc' = [loc EXCEPT !.attempt = @ + 1]
                /\ UNCHANGED ret
    /\ UNCHANGED <<fn, args, pose, raycast, result, nframes, sim, bk, out, hist>>

\* HouseBuilder.look_at_precise: one pass of the loop, or the return after it
LookAtPrecise ==
    /\ pc = "head" /\ fn = "look_at_precise"
    /\ LET d == ConvDelta(fn, args, pose)
       IN  IF loc.attempt >= args.max_attempts \/ LapWithin(d)
           THEN /\ Return(raycast)
                /\ UNCHANGED <<loc, wait, sent, inflight>>
           ELSE /\ SendLookAndSettle(d, "head")
                /\ loc' = [loc EXCEPT !.attempt = @ + 1]
                /\ UNCHANGED ret
    /\ UNCHANGED <<fn, args, pose, raycast, result, nframes, sim, bk, out, hist>>

\* NavTester.face_direction
FaceDirection ==
    /\ pc = "head" /\ fn = "face_direction"
    /\ LET d == ConvDelta(fn, args, pose)
       IN  IF loc.i >= args.max_steps \/ FaceWithin(d[1], args.tolerance)
           THEN /\ Return(<<loc.steps, Abs(normalize_angle(args.target_yaw - pose.yaw))>>)
                /\ UNCHANGED <<loc, wait, sent, inflight>>
           ELSE /\ SendLookAndSettle(d, "head")
                /\ loc' = [loc EXCEPT !.i = @ + 1, !.steps = @ + 1]
                /\ UNCHANGED ret
    /\ UNCHANGED <<fn, args, pose, raycast, result, nframes, sim, bk, out, hist>>

\* the result of one target of test_correction_convergence
TccResult(iterations, final) ==
    [converged |-> \E k \in 1 .. Len(iterations) : iterations[k],
     iterations |-> Len(iterations),
     final_residual2 |-> final,
     trace |-> iterations]

\* AimTester.test_correction_convergence, the loop of one target, up to the
\* look action
TccMeasure ==
    /\ pc = "head" /\ fn = "test_correction_convergence"
    /\ LET d == ConvDelta(fn, args, pose)
       IN  IF loc.attempt >= TccMaxAttempts
           THEN /\ Return(TccResult(loc.iterations, loc.final))
                /\ UNCHANGED <<loc, wait, sent, inflight>>
           ELSE IF TccWithin(d)
           THEN /\ Return(TccResult(Append(loc.iterations, TRUE), Residual2(d)))
                /\ loc' = [loc EXCEPT !.iterations = Append(@, TRUE),
                                      !.final = Residual2(d)]
                /\ UNCHANGED <<wait, sent, inflight>>
           ELSE /\ SendLookAndSettle(d, "tcc_after")
                /\ UNCHANGED <<loc, ret>>
    /\ UNCHANGED <<fn, args, pose, raycast, result, nframes, sim, bk, out, hist>>

\* AimTester.test_correction_convergence: the measurement after the look
TccAfter ==
    /\ pc = "tcc_after" /\ fn = "test_correction_convergence"
    /\ LET d2 == ConvDelta(fn, args, pose)
           its == Append(loc.iterations, TccWithin(d2))
       IN  /\ loc' = [loc EXCEPT !.iterations = its, !.final = Residual2(d2),
                                 !.attempt = @ + 1]
           /\ IF TccWithin(d2)
              THEN Return(TccResult(its, Residual2(d2)))
              ELSE pc' = "head" /\ UNCHANGED ret
    /\ UNCHANGED <<fn, args, pose, raycast, result, wait, sent, inflight,
                   nframes, sim, bk, out, hist>>

\* AimTester.test_lookat_precise_benchmark, the loop of one target
Benchmark ==
    /\ pc = "head" /\ fn = "test_lookat_precise_benchmark"
    /\ LET d == ConvDelta(fn, args, pose)
       IN  IF loc.attempt >= BenchMaxAttempts
           THEN /\ Return([converged |-> loc.converged, attempts |-> loc.attempts])
                /\ UNCHANGED <<loc, wait, sent, inflight>>
           ELSE IF BenchWithin(d)
           THEN /\ Return([converged |-> TRUE, attempts |-> loc.attempts + 1])
                /\ loc' = [loc EXCEPT !.attempts = @ + 1, !.converged = TRUE]
                /\ UNCHANGED <<wait, sent, inflight>>
           ELSE /\ SendLookAndSettle(d, "head")
                /\ loc' = [loc EXCEPT !.attempts = @ + 1, !.attempt = @ + 1]
                /\ UNCHANGED ret
    /\ UNCHANGED <<fn, args, pose, raycast, result, nframes, sim, bk, out, hist>>

ConvNext ==
    \/ RecvState
    \/ LookAtPrecise
    \/ FaceDirection
    \/ TccMeasure
    \/ TccAfter
    \/ Benchmark

SpecConv == ConvInit /\ [][ConvNext]_vars

\* the residual of the pose observed last, squared
ResidualNow == Residual2(ConvDelta(fn, args, pose))

\* the tolerance test of the running loop on the pose observed last
WithinNow ==
    LET d == ConvDelta(fn, args, pose)
    IN  CASE fn = "look_at_precise" -> LapWithin(d)
          [] fn = "face_direction" -> FaceWithin(d[1], args.tolerance)
          [] fn = "test_correction_convergence" -> TccWithin(d)
          [] fn = "test_lookat_precise_benchmark" -> BenchWithin(d)

\* the loop used up every attempt it is allowed
AttemptsUsedUp ==
    CASE fn = "look_at_precise" -> loc.attempt >= 5
      [] fn = "face_direction" -> loc.i >= 10
      [] fn = "test_correction_convergence" -> loc.attempt >= 10
      [] fn = "test_lookat_precise_benchmark" -> loc.attempt >= 8

\* the converged flag a caller reads from the returned value: "true",
\* "false", or "absent" when the value carries none
ReportedConverged ==
    CASE fn = "look_at_precise" ->
            IF "converged" \in DOMAIN ret
            THEN (IF ret.converged THEN "true" ELSE "false")
            ELSE "absent"
      [] fn = "face_direction" ->
            IF ret[2] <= args.tolerance THEN "true" ELSE "false"
      [] fn \in {"test_correction_convergence", "test_lookat_precise_benchmark"} ->
            IF ret.converged THEN "true" ELSE "false"

ConvCanStep ==
    \/ pc = "head"
    \/ pc = "wait" /\ wait.n > 0
    \/ pc = "tcc_after" /\ fn = "test_correction_convergence"

\* C4: whatever poses are observed, a call sends at most max_attempts look
\* actions (5, 10, 10, 8), consumes at most two state frames per look, and
\* until it has returned it can always take its next step.
C4_BoundedAttempts ==
    LET bound == CASE fn = "look_at_precise" -> 5
                   [] fn = "face_direction" -> 10
                   [] fn = "test_correction_convergence" -> 10
                   [] fn = "test_lookat_precise_benchmark" -> 8
    IN  /\ sent.look <= bound
        /\ nframes <= 2 * sent.look
        /\ pc # "done" => ConvCanStep
        /\ pc = "done" => nframes = 2 * sent.look

\* look_at_precise returns after its fifth look action, still off target
C4_Witness ==
    /\ pc = "done" /\ fn = "look_at_precise"
    /\ sent.look = 5 /\ nframes = 10
    /\ ~WithinNow

\* C5: a call that used up its attempts without the residual coming within
\* tolerance returns a value whose converged flag is false.
C5_ExhaustedReportsNotConverged ==
    (pc = "done" /\ AttemptsUsedUp /\ ~WithinNow) => ReportedConverged = "false"

\* C6: when the simulation adds each look delta exactly and the eye stays
\* put, the residual observed after a look is never larger than the one
\* before it (hist.grew records a look after which it was), and a call that
\* has to turn converges with exactly one look.
C6_NoiselessOneLook ==
    sim = "exact" =>
        /\ ~hist.grew
        /\ sent.look <= 1
        /\ pc = "done" =>
              /\ hist.entryAbove => sent.look = 1
              /\ sent.look = 1 => (ResidualNow = 0 /\ ReportedConverged # "false")

\* the loop of test_correction_convergence entered a quarter turn off,
\* converged after its one look
C6_Witness ==
    /\ sim = "exact" /\ pc = "done" /\ fn = "test_correction_convergence"
    /\ hist.entryAbove
    /\ sent.look = 1 /\ ret.converged /\ ret.iterations = 1
    /\ ResidualNow = 0

\* C26: the converged flag returned by the loops of
\* test_correction_convergence and test_lookat_precise_benchmark is true
\* exactly when the residual of the pose observed last, at the end of the
\* loop, is within tolerance; so a last permitted look that brings the pose
\* within tolerance yields converged = true.
C26_ConvergedIffWithin ==
    (pc = "done" /\ fn \in {"test_correction_convergence",
                            "test_lookat_precise_benchmark"}) =>
        (ret.converged <=> WithinNow)

\* C28: every look action face_direction sends carries a pitch delta of
\* minus the observed pitch, and against a simulation that applies deltas
\* exactly the pitch is 0 whenever face_direction has returned.
C28_AlignmentLevelsPitch ==
    fn = "face_direction" =>
        /\ (pc = "wait" /\ inflight.type = "action_look") =>
               inflight.pitch = -pose.pitch
        /\ (pc = "done" /\ sim = "exact") => pose.pitch = 0

\* C29: face_direction returns (steps, final_error) with steps the number
\* of look actions it sent, steps <= max_steps, final_error at most the
\* tolerance whenever steps < max_steps, and final_error the absolute value
\* of the normalized difference between target_yaw and the yaw observed
\* last, between 0 and 180 degrees.
C29_FaceDirectionReturn ==
    (pc = "done" /\ fn = "face_direction") =>
        /\ ret[1] = sent.look
        /\ ret[1] <= args.max_steps
        /\ ret[1] < args.max_steps => ret[2] <= args.tolerance
        /\ ret[2] = Abs(normalize_angle(args.target_yaw - pose.yaw))
        /\ ret[2] >= 0 /\ ret[2] <= Deg(180)

\* face_direction returning within tolerance after three look actions
\* against a simulation that answered the first two with poses off target
C29_Witness ==
    /\ pc = "done" /\ fn = "face_direction" /\ sim = "any"
    /\ sent.look = 3 /\ ret[1] = 3
    /\ hist.entryAbove
    /\ ret[2] <= args.tolerance

\* C32: a convergence loop consumes exactly two state frames after each
\* look action before it measures the residual again or sends the next
\* look, and the delta of each look action is the one computed from the
\* pose of the latest frame received.
C32_SettleThenMeasure ==
    fn \in ConvFns =>
        /\ pc \in {"head", "tcc_after", "done"} => nframes = 2 * sent.look
        /\ pc = "wait" =>
              /\ wait.n \in {1, 2}
              /\ nframes = 2 * sent.look - wait.n
              /\ wait.n = 2 =>
                    LET d == ConvDelta(fn, args, pose)
                    IN  inflight = LookAction(d[1], d[2])

\* look_at_precise about to measure for the third time, two looks and four
\* frames after it started off target
C32_Witness ==
    /\ fn = "look_at_precise" /\ pc = "head" /\ sim = "any"
    /\ hist.entryAbove
    /\ sent.look = 2 /\ nframes = 4

----------------------------------------------------------------------------
(* Specification SpecPlace: build_wall.Builder placing blocks.  A caller   *)
(* makes up to MaxCalls calls, one after the other, of place_on_top, of    *)
(* one row-3 cell of build (place_on_top, then the side-face fallback) or  *)
(* of attack; every state frame carries any raycast and any action result. *)

MaxCalls == 2

PlaceFns == {"place_on_top", "build_row3", "attack"}

\* Builder.result: None, or the dict of the last non-null last_action_result
NoResult == <<>>
Some(r) == <<r>>

\* the wall cells the calls aim at, and the coordinates a result may name
PlaceCells == {<<3, 1, 1>>}
ResultPositions == PlaceCells \cup {<<3, 1, 0>>}

\* last_action_result of a frame: null, or a dict
FrameResults ==
    {NoResult}
    \cup {Some([success |-> TRUE, pos |-> q]) : q \in ResultPositions}
    \cup {Some([success |-> FALSE, pos |-> <<3, 1, 0>>]),
          Some([success |-> TRUE]),
          Some(EmptyDict)}

PlaceRays == {RayTop, RaySide, RayGrass, RayEntity, RayNone}
PlacePoses == {PoseAt(EyePos, 0, 0)}

PlaceLocals ==
    [polls |-> 0, polled |-> "none", cont |-> None, ok |-> FALSE, nb |-> 0]

PlaceStart(f) == IF f = "attack" THEN "atk_start" ELSE "pot_start"

PlaceInit ==
    /\ fn \in PlaceFns
    /\ args \in {[bx |-> c[1], by |-> c[2], bz |-> c[3]] : c \in PlaceCells}
    /\ loc = PlaceLocals
    /\ pc = PlaceStart(fn) /\ ret = None
    /\ pose \in PlacePoses
    /\ raycast \in PlaceRays
    /\ result = NoResult
    /\ wait = NoWait /\ sent = NoSent /\ inflight = NoAction /\ nframes = 0
    /\ sim = "any" /\ bk = NoBook /\ out = None
    /\ hist = [calls |-> 1, bk0 |-> NoBook, ray |-> EmptyDict, outcomes |-> {}]

\* the outcome class of a finished place_on_top call, from what it printed
OutcomeClass(o, r) ==
    CASE o = "miss" -> "miss"
      [] o = "wrong face" -> "wrong-face"
      [] o = "ok" -> "success"
      [] o = "wrong" -> "wrong-location"
      [] o = "no result" -> IF r = NoResult THEN "timeout" ELSE "failed"

\* build: the caller goes on to its next call
Call ==
    /\ pc = "done" /\ fn \in PlaceFns
    /\ hist.calls < MaxCalls
    /\ fn' \in PlaceFns
    /\ args' \in {[bx |-> c[1], by |-> c[2], bz |-> c[3]] : c \in PlaceCells}
    /\ loc' = PlaceLocals
    /\ pc' = PlaceStart(fn') /\ ret' = None
    /\ sent' = NoSent /\ out' = None
    /\ hist' = [calls |-> hist.calls + 1, bk0 |-> bk, ray |-> EmptyDict,
                outcomes |-> IF fn = "place_on_top"
                             THEN hist.outcomes \cup {<<OutcomeClass(out, result), ret>>}
                             ELSE hist.outcomes]
    /\ UNCHANGED <<pose, raycast, result, wait, inflight, nframes, sim, bk>>

\* Builder.recv: the next state frame
Recv(p, r, lar) ==
    /\ pose' = p
    /\ raycast' = r
    /\ result' = IF lar # NoResult THEN lar ELSE result
    /\ inflight' = NoAction

\* Builder.wait, one frame of it
BuilderWait ==
    /\ pc = "wait" /\ fn \in PlaceFns /\ wait.n > 0
    /\ \E p \in PlacePoses, r \in PlaceRays, lar \in FrameResults :
          /\ Recv(p, r, lar)
    /\ wait' = [wait EXCEPT !.n = @ - 1]
    /\ pc' = IF wait.n = 1 THEN wait.cont ELSE "wait"
    /\ UNCHANGED <<fn, args, loc, ret, sent, nframes, sim, bk, out, hist>>

\* Builder.aim: look at (tx, ty, tz), then wait s frames
Aim(tx, ty, tz, s, cont) ==
    LET d == look_delta(pose.x, pose.y, pose.z, pose.yaw, pose.pitch, tx, ty, tz)
    IN  /\ Send(LookAction(d[1], d[2]), "look")
        /\ wait' = [n |-> s, cont |-> cont]
        /\ pc' = "wait"

\* Builder.place / Builder.attack up to the first recv: clear the result,
\* send the action
StartPoll(kind, action, cont) ==
    /\ result' = NoResult
    /\ Send([type |-> action], kind)
    /\ pc' = "poll"
    /\ loc' = [loc EXCEPT !.polls = 0, !.polled = kind, !.cont = cont]

\* for _ in range(10) in place, range(6) in attack
PollBound(kind) == IF kind = "attack" THEN 6 ELSE 10

\* place_on_top returns v
PlaceOnTopReturn(v) ==
    IF fn = "place_on_top"
    THEN /\ Return(v)
         /\ UNCHANGED loc
    ELSE /\ loc' = [loc EXCEPT !.ok = v, !.nb = 1]
         /\ pc' = IF v THEN "done" ELSE "fb_aim"
         /\ ret' = IF v THEN v ELSE ret

\* place_on_top: aim at the top face of the block below
PlaceOnTopAim ==
    /\ pc = "pot_start" /\ fn \in {"place_on_top", "build_row3"}
    /\ Aim(Blocks(args.bx) + Centi(50), Blocks(args.by - 1) + Blocks(1),
           Blocks(args.bz) + Centi(50), 3, "pot_check")
    /\ UNCHANGED <<fn, args, loc, ret, pose, raycast, result, nframes, sim, bk,
                   out, hist>>

\* place_on_top without the test of the face
PlaceOnTopCheck_AnyFace ==
    /\ pc = "pot_check" /\ fn \in {"place_on_top", "build_row3"}
    /\ hist' = [hist EXCEPT !.ray = raycast]
    /\ IF Get(raycast, "hit_type", "miss") # "block"
       THEN /\ out' = "miss"
            /\ bk' = [bk EXCEPT !.retry = @ + 1]
            /\ PlaceOnTopReturn(FALSE)
            /\ UNCHANGED <<result, sent, inflight>>
       ELSE /\ StartPoll("use", "action_use", "pot_result")
            /\ UNCHANGED <<ret, bk, out>>
    /\ UNCHANGED <<fn, args, pose, raycast, wait, nframes, sim>>

\* place_on_top: the raycast pre-check, and the use action if it passes
\* (hist.ray keeps the raycast the check looked at)
PlaceOnTopCheck ==
    /\ pc = "pot_check" /\ fn \in {"place_on_top", "build_row3"}
    /\ hist' = [hist EXCEPT !.ray = raycast]
    /\ LET hit == Get(raycast, "hit_type", "miss")
           normal == Get(raycast, "hit_normal", "NONE")
       IN  IF hit # "block"
           THEN /\ out' = "miss"
                /\ bk' = [bk EXCEPT !.retry = @ + 1]
                /\ PlaceOnTopReturn(FALSE)
                /\ UNCHANGED <<result, sent, inflight>>
           ELSE IF normal # "TOP"
           THEN /\ out' = "wrong face"
                /\ bk' = [bk EXCEPT !.retry = @ + 1]
                /\ PlaceOnTopReturn(FALSE)
                /\ UNCHANGED <<result, sent, inflight>>
           ELSE /\ StartPoll("use", "action_use", "pot_result")
                /\ UNCHANGED <<ret, bk, out>>
    /\ UNCHANGED <<fn, args, pose, raycast, wait, nframes, sim>>

\* place / attack polling without the early return
PollResult_NoEarlyReturn ==
    /\ pc = "poll" /\ fn \in PlaceFns
    /\ \E p \in PlacePoses, r \in PlaceRays, lar \in FrameResults :
          Recv(p, r, lar)
    /\ IF loc.polls + 1 >= PollBound(loc.polled)
       THEN /\ pc' = loc.cont
            /\ loc' = [loc EXCEPT !.polls = 0, !.polled = "none", !.cont = None]
       ELSE /\ pc' = "poll"
            /\ loc' = [loc EXCEPT !.polls = @ + 1]
    /\ UNCHANGED <<fn, args, ret, wait, sent, nframes, sim, bk, out, hist>>

\* Builder.place / Builder.attack: one pass of the polling loop, and the
\* return when it is the last
PollResult ==
    /\ pc = "poll" /\ fn \in PlaceFns
    /\ \E p \in PlacePoses, r \in PlaceRays, lar \in FrameResults :
          Recv(p, r, lar)
    /\ IF result' # NoResult \/ loc.polls + 1 >= PollBound(loc.polled)
       THEN /\ pc' = loc.cont
            /\ loc' = [loc EXCEPT !.polls = 0, !.polled = "none", !.cont = None]
       ELSE /\ pc' = "poll"
            /\ loc' = [loc EXCEPT !.polls = @ + 1]
    /\ UNCHANGED <<fn, args, ret, wait, sent, nframes, sim, bk, out, hist>>

\* "result and result.get('success')"
Succeeded(res) ==
    /\ res # NoResult
    /\ DOMAIN res[1] # {}
    /\ Get(res[1], "success", FALSE)

\* result.get('pos', [])
ResultPos(res) == Get(res[1], "pos", <<>>)

\* the coordinate test left out
PosMatch_Any(pos, bx, by, bz) == TRUE

\* len(pos) == 3 and pos[0] == bx and pos[1] == by and pos[2] == bz
PosMatch(pos, bx, by, bz) ==
    Len(pos) = 3 /\ pos[1] = bx /\ pos[2] = by /\ pos[3] = bz

\* the count without the log entry
Counted_NoLog(b, bx, by, bz, pos) == [b EXCEPT !.ok = @ + 1]

\* self.ok += 1; self.log.append({"t": [bx,by,bz], "ok": True, "at": pos})
Counted(b, bx, by, bz, pos) ==
    [b EXCEPT !.ok = @ + 1,
              !.log = Append(@, [t |-> <<bx, by, bz>>, ok |-> TRUE, at |-> pos])]

\* place_on_top: what it makes of the result of place()
PlaceOnTopResult ==
    /\ pc = "pot_result" /\ fn \in {"place_on_top", "build_row3"}
    /\ IF Succeeded(result)
       THEN IF PosMatch(ResultPos(result), args.bx, args.by, args.bz)
            THEN /\ out' = "ok"
                 /\ bk' = Counted(bk, args.bx, args.by, args.bz, ResultPos(result))
                 /\ PlaceOnTopReturn(TRUE)
            ELSE /\ out' = "wrong"
                 /\ bk' = [bk EXCEPT !.retry = @ + 1]
                 /\ PlaceOnTopReturn(FALSE)
       ELSE /\ out' = "no result"
            /\ bk' = [bk EXCEPT !.retry = @ + 1]
            /\ PlaceOnTopReturn(FALSE)
    /\ UNCHANGED <<fn, args, pose, raycast, result, wait, sent, inflight,
                   nframes, sim, hist>>

\* the neighbour cell the fallback looks for: north first, then south
NeighbourZ == IF loc.nb = 1 THEN args.bz - 1 ELSE args.bz + 1

\* build, row 3: the fallback aims at the neighbour cell, or the loop over
\* the two neighbours is over (place_on_top has returned: hist.ray is cleared)
FallbackAim ==
    /\ pc = "fb_aim" /\ fn = "build_row3"
    /\ IF loc.nb > 2
       THEN /\ Return(FALSE)
            /\ UNCHANGED <<wait, sent, inflight>>
       ELSE /\ Aim(Blocks(args.bx) + Centi(50), Blocks(args.by) + Centi(50),
                   Blocks(NeighbourZ) + Centi(50), 3, "fb_check")
            /\ UNCHANGED ret
    /\ hist' = [hist EXCEPT !.ray = EmptyDict]
    /\ UNCHANGED <<fn, args, loc, pose, raycast, result, nframes, sim, bk, out>>

\* build, row 3: the neighbour is there (a stone block), aim at its side face
FallbackCheck ==
    /\ pc = "fb_check" /\ fn = "build_row3"
    /\ IF Get(raycast, "hit_type", None) = "block" /\ Get(raycast, "hit_id", None) = "stone"
       THEN /\ Aim(Blocks(args.bx) + Centi(50), Blocks(args.by) + Centi(50),
                   IF NeighbourZ < args.bz THEN Blocks(NeighbourZ) + Blocks(1)
                                           ELSE Blocks(NeighbourZ),
                   3, "fb_check2")
            /\ UNCHANGED loc
       ELSE /\ loc' = [loc EXCEPT !.nb = @ + 1]
            /\ pc' = "fb_aim"
            /\ UNCHANGED <<wait, sent, inflight>>
    /\ UNCHANGED <<fn, args, ret, pose, raycast, result, nframes, sim, bk, out, hist>>

\* build, row 3: the second aim hit a block, place
FallbackCheck2 ==
    /\ pc = "fb_check2" /\ fn = "build_row3"
    /\ IF Get(raycast, "hit_type", None) = "block"
       THEN StartPoll("use", "action_use", "fb_result")
       ELSE /\ loc' = [loc EXCEPT !.nb = @ + 1]
            /\ pc' = "fb_aim"
            /\ UNCHANGED <<result, sent, inflight>>
    /\ UNCHANGED <<fn, args, ret, pose, raycast, wait, nframes, sim, bk, out, hist>>

\* build, row 3: what the fallback makes of the result of place()
FallbackResult ==
    /\ pc = "fb_result" /\ fn = "build_row3"
    /\ IF Succeeded(result)
          /\ PosMatch(ResultPos(result), args.bx, args.by, args.bz)
       THEN /\ bk' = Counted(bk, args.bx, args.by, args.bz, ResultPos(result))
            /\ Return(TRUE)
            /\ UNCHANGED loc
       ELSE /\ loc' = [loc EXCEPT !.nb = @ + 1]
            /\ pc' = "fb_aim"
            /\ UNCHANGED <<bk, ret>>
    /\ UNCHANGED <<fn, args, pose, raycast, result, wait, sent, inflight,
                   nframes, sim, out, hist>>

\* Builder.attack up to its polling loop
Attack ==
    /\ pc = "atk_start" /\ fn = "attack"
    /\ StartPoll("attack", "action_attack", "atk_return")
    /\ UNCHANGED <<fn, args, ret, pose, raycast, wait, nframes, sim, bk, out, hist>>

\* Builder.attack: return self.result
AttackReturn ==
    /\ pc = "atk_return" /\ fn = "attack"
    /\ Return(result)
    /\ UNCHANGED <<fn, args, loc, pose, raycast, result, wait, sent, inflight,
                   nframes, sim, bk, out, hist>>

PlaceNext ==
    \/ Call
    \/ BuilderWait
    \/ PlaceOnTopAim
    \/ PlaceOnTopCheck
    \/ PollResult
    \/ PlaceOnTopResult
    \/ FallbackAim
    \/ FallbackCheck
    \/ FallbackCheck2
    \/ FallbackResult
    \/ Attack
    \/ AttackReturn

SpecPlace == PlaceInit /\ [][PlaceNext]_vars

\* the cell the call is to fill
TargetCell == <<args.bx, args.by, args.bz>>

\* what the check of place_on_top saw
CheckedHit == Get(hist.ray, "hit_type", "miss")
CheckedNormal == Get(hist.ray, "hit_normal", "NONE")

\* the bookkeeping of successes is as it was when the call began
NothingCounted == bk.ok = hist.bk0.ok /\ bk.log = hist.bk0.log

\* C7: in a call of place_on_top no use action is sent unless the raycast
\* observed after aiming hit a block on its TOP face; a call whose raycast
\* did not hit a block ends as a miss, whatever the face, and one that hit
\* a block on another face ends as wrong face; both return False, send no
\* use action and leave the ok counter and the log as they were.
C7_PreCheckGuardsUse ==
    fn = "place_on_top" =>
        /\ sent.use > 0 => (CheckedHit = "block" /\ CheckedNormal = "TOP")
        /\ (pc = "done" /\ CheckedHit # "block") =>
              /\ out = "miss" /\ ret = FALSE
              /\ sent.use = 0 /\ NothingCounted
        /\ (pc = "done" /\ CheckedHit = "block" /\ CheckedNormal # "TOP") =>
              /\ out = "wrong face" /\ ret = FALSE
              /\ sent.use = 0 /\ NothingCounted

\* a second call of place_on_top, after a counted one, saw the side face
\* of a block and was rejected
C7_Witness ==
    /\ fn = "place_on_top" /\ pc = "done"
    /\ hist.ray = RaySide /\ out = "wrong face" /\ ret = FALSE
    /\ sent.use = 0 /\ sent.look = 1
    /\ hist.bk0.ok = 1 /\ bk.ok = 1 /\ Len(bk.log) = 1

\* C8: a placement is counted (ok incremented, a log entry appended,
\* place_on_top returning True) only if the result of the use action
\* reported success with a pos of exactly three components equal to the
\* intended cell; a success at any other coordinate is not counted.  It
\* holds for place_on_top and for the side-face fallback of row 3.
C8_CountedOnlyOnMatch ==
    /\ bk.ok = Len(bk.log)
    /\ \A i \in 1 .. Len(bk.log) :
          /\ bk.log[i].ok
          /\ Len(bk.log[i].at) = 3
          /\ bk.log[i].at = bk.log[i].t
    /\ bk.ok \in {hist.bk0.ok, hist.bk0.ok + 1}
    /\ fn = "attack" => NothingCounted
    /\ (pc = "done" /\ fn \in {"place_on_top", "build_row3"}) =>
          /\ ret = TRUE <=> bk.ok = hist.bk0.ok + 1
          /\ ret = TRUE =>
                /\ Succeeded(result)
                /\ ResultPos(result) = TargetCell
                /\ bk.log[Len(bk.log)].t = TargetCell
          /\ (Succeeded(result) /\ ResultPos(result) # TargetCell) => NothingCounted

\* a row-3 cell whose place_on_top got a success at another coordinate
\* and whose fallback on the second neighbour was counted
C8_Witness ==
    /\ fn = "build_row3" /\ pc = "done" /\ ret = TRUE
    /\ ~loc.ok /\ loc.nb = 2 /\ out = "wrong"
    /\ sent.use = 3
    /\ bk.ok = hist.bk0.ok + 1 /\ bk.retry = hist.bk0.retry + 1
    /\ ResultPos(result) = TargetCell

\* C9: after the use action, place() takes at most 10 state frames and
\* attack() at most 6; it returns at the first frame with a non-null
\* last_action_result, and with None only after the last frame; after a
\* None place_on_top returns False (no result), nothing counted.
C9_BoundedSoftPolling ==
    /\ [][pc = "poll" =>
            /\ result = NoResult
            /\ loc.polls < (IF fn = "attack" THEN 6 ELSE 10)
            /\ result' # NoResult => pc' = loc.cont
            /\ (result' = NoResult /\ pc' # "poll") =>
                  loc.polls + 1 = (IF fn = "attack" THEN 6 ELSE 10)
            /\ pc' = "poll" => loc'.polls = loc.polls + 1]_vars
    /\ [](/\ (pc = "done" /\ fn = "attack") => ret = result
          /\ (pc = "done" /\ fn = "place_on_top" /\ sent.use > 0 /\ result = NoResult) =>
                /\ ret = FALSE /\ out = "no result"
                /\ NothingCounted /\ bk.retry = hist.bk0.retry + 1)

\* place_on_top sent its use action, ten frames brought no result, and it
\* returned False
C9_Witness ==
    /\ fn = "place_on_top" /\ pc = "done"
    /\ sent.use = 1 /\ result = NoResult
    /\ ret = FALSE /\ out = "no result"
    /\ hist.ray = RayTop

\* the five outcome classes of a placement attempt
OutcomeClasses == {"wrong-face", "miss", "timeout", "wrong-location", "success"}

\* the class and the returned value of every finished call of place_on_top
Outcomes ==
    hist.outcomes
    \cup (IF pc = "done" /\ fn = "place_on_top"
          THEN {<<OutcomeClass(out, result), ret>>}
          ELSE {})

\* C10: the value place_on_top returns tells the five outcome classes
\* apart: two attempts of different classes never return the same value.
C10_ReturnTellsClass ==
    \A a, b \in Outcomes :
        (a[1] \in OutcomeClasses /\ b[1] \in OutcomeClasses /\ a[2] = b[2])
            => a[1] = b[1]

----------------------------------------------------------------------------
(* Specification SpecNav: the navigation loops NavTester.navigate_to,      *)
(* Builder.walk and HouseBuilder.move_to_position.  The agent stands on     *)
(* the line z = tz west of the target; every state frame may carry any      *)
(* pose of NavPoses, or (sim = "silent") no frame arrives after the one the *)
(* call starts from; a wait of n frames is one step.  nframes counts the    *)
(* frames received since the last action was sent, inflight is that action. *)

NavFns == {"navigate_to", "walk", "move_to_position"}

\* tolerance=1.0 / tol=0.7 / tolerance=1.5
NavTolerance(f) ==
    CASE f = "navigate_to" -> Centi(100)
      [] f = "walk" -> Centi(70)
      [] f = "move_to_position" -> Centi(150)

\* max_corrections=30 / mx=25 / range(15)
NavCap(f) ==
    CASE f = "navigate_to" -> 30
      [] f = "walk" -> 25
      [] f = "move_to_position" -> 15

NavTarget == [tx |-> Blocks(20), tz |-> Centi(50)]

\* distances from the target at which a frame may report the agent
NavDistances(f) ==
    CASE f = "navigate_to" ->
            {Centi(100), Centi(130), Blocks(2), Blocks(5), Blocks(10), Blocks(12)}
      [] f = "walk" -> {Centi(50), Centi(70), Centi(90), Blocks(2), Blocks(3)}
      [] f = "move_to_position" -> {Blocks(1), Centi(150), Blocks(8), Blocks(9)}

NavYaws == {Deg(0), Deg(90)}

NavPoses(f) ==
    {[x |-> NavTarget.tx - d, y |-> EyePos.y, z |-> NavTarget.tz,
      yaw |-> w, pitch |-> Deg(0)] : d \in NavDistances(f), w \in NavYaws}

\* distance_xz / dist_xz, squared
Dist2(x1, z1, x2, z2) == (x2 - x1) * (x2 - x1) + (z2 - z1) * (z2 - z1)

\* squared distance from pose p to the target of the call
Remaining2(p) == Dist2(p.x, p.z, args.tx, args.tz)

MoveAction(f, s, d) ==
    [type |-> "action_move", forward |-> f, strafe |-> s, duration |-> d]

JumpAction == [type |-> "action_jump"]

\* frames a jump takes to reach its peak ("reach peak")
JumpPeakTicks == 4

\* milliseconds of one simulation tick (wait_ticks = duration / 50)
TickMs == 50

\* after n frames the effect of action a is still going on: a move whose
\* duration has not elapsed, a jump that has not reached its peak
Unresolved(a, n) ==
    \/ a.type = "action_move" /\ n * TickMs < a.duration
    \/ a.type = "action_jump" /\ n < JumpPeakTicks

\* after n frames a move has not had its duration and a margin
Unsettled(a, n) == a.type = "action_move" /\ n * TickMs <= a.duration

\* the record of a call after it sends an action, n frames after the last one
Noted(h, n) ==
    [h EXCEPT !.acted = TRUE,
              !.overlap = @ \/ Unresolved(inflight, n),
              !.short = @ \/ Unsettled(inflight, n)]

\* the history counts the jump actions navigate_to sends up to this number,
\* which stands for "this many or more"
MaxJumpsNoted == 4

\* send / cmd / send_action
NavSend(a) == inflight' = a /\ nframes' = 0

\* n calls of recv_state / recv: the last frame's pose is the one kept
NavRecv(n) ==
    /\ sim = "any"
    /\ pose' \in NavPoses(fn)
    /\ nframes' = nframes + n

NavLocals(p) ==
    [i |-> 0, stuck |-> 0, jumps |-> 0, px |-> p.x, pz |-> p.z,
     fstep |-> 0, rem2 |-> 0, yaw |-> 0, corr |-> 0]

NavStart(f) ==
    CASE f = "navigate_to" -> "nav_top"
      [] f = "walk" -> "walk_top"
      [] f = "move_to_position" -> "mtp_top"

NavInit ==
    /\ fn \in NavFns
    /\ args = [tx |-> NavTarget.tx, tz |-> NavTarget.tz,
               tol |-> NavTolerance(fn), cap |-> NavCap(fn)]
    /\ pose \in NavPoses(fn)
    /\ loc = NavLocals(pose)
    /\ pc = NavStart(fn) /\ ret = None
    /\ raycast = RayNone /\ result = NoResult
    /\ wait = NoWait /\ sent = NoSent /\ inflight = NoAction /\ nframes = 0
    /\ sim \in {"any", "silent"} /\ bk = NoBook /\ out = None
    /\ hist = [acted |-> FALSE, overlap |-> FALSE, short |-> FALSE,
               good |-> FALSE, jumpsSent |-> 0,
               entryWithin |-> Dist2(pose.x, pose.z, NavTarget.tx, NavTarget.tz)
                                  <= NavTolerance(fn) * NavTolerance(fn)]

\* a loop that never runs out of iterations
Exhausted_Never(i, cap) == FALSE

\* for i in range(max_corrections): the iterations are used up
Exhausted(i, cap) == i >= cap

\* max(3, int(ms / 50) + 3)
BurstWaitTicks(ms) == Max(3, ms \div TickMs + 3)

\* the variables no navigation step changes
NavFixed == <<fn, args, raycast, result, wait, sent, sim, bk, out>>

\* walk: ms = max(200, min(int(d*600), 1500)), d2 the squared distance
WalkMs(d2) == Max(200, Min(ISqrt(36 * d2), 1500))

\* walk: mv < 0.2
WalkSlow(m2) == m2 < Centi(20) * Centi(20)

\* walk: the head of the loop up to the look it sends
WalkTop ==
    /\ pc = "walk_top" /\ fn = "walk"
    /\ IF Exhausted(loc.i, args.cap)
       THEN /\ Return(FALSE)
            /\ UNCHANGED <<loc, inflight, nframes, hist>>
       ELSE IF Remaining2(pose) <= args.tol * args.tol
       THEN /\ Return(TRUE)
            /\ UNCHANGED <<loc, inflight, nframes, hist>>
       ELSE LET yaw == ATan2(args.tz - pose.z, args.tx - pose.x)
            IN  /\ NavSend(LookAction(norm_angle(yaw - pose.yaw), -pose.pitch))
                /\ hist' = Noted(hist, nframes)
                /\ loc' = [loc EXCEPT !.rem2 = Remaining2(pose)]
                /\ pc' = "walk_look_wait"
                /\ UNCHANGED ret
    /\ UNCHANGED <<pose>>
    /\ UNCHANGED NavFixed

\* walk: wait(2) after the look, then the forward burst
WalkLooked ==
    /\ pc = "walk_look_wait" /\ fn = "walk"
    /\ sim = "any" /\ pose' \in NavPoses(fn)
    /\ NavSend(MoveAction(Tenths(10), Tenths(0), WalkMs(loc.rem2)))
    /\ hist' = Noted(hist, nframes + 2)
    /\ pc' = "walk_burst_wait"
    /\ UNCHANGED <<loc, ret>>
    /\ UNCHANGED NavFixed

\* walk: wait(max(3, int(ms/50)+3)) after the burst
WalkBurstWait ==
    /\ pc = "walk_burst_wait" /\ fn = "walk"
    /\ NavRecv(BurstWaitTicks(inflight.duration))
    /\ pc' = "walk_measure"
    /\ UNCHANGED <<loc, ret, inflight, hist>>
    /\ UNCHANGED NavFixed

\* walk: the displacement of the burst, the stuck counter, the jump
WalkMeasure ==
    /\ pc = "walk_measure" /\ fn = "walk"
    /\ IF WalkSlow(Dist2(loc.px, loc.pz, pose.x, pose.z))
       THEN IF loc.stuck + 1 >= 2
            THEN /\ NavSend(JumpAction)
                 /\ hist' = Noted(hist, nframes)
                 /\ loc' = [loc EXCEPT !.stuck = @ + 1]
                 /\ pc' = "walk_jump_wait"
            ELSE /\ loc' = [loc EXCEPT !.stuck = @ + 1, !.i = @ + 1,
                                       !.px = pose.x, !.pz = pose.z]
                 /\ pc' = "walk_top"
                 /\ UNCHANGED <<inflight, nframes, hist>>
       ELSE /\ loc' = [loc EXCEPT !.stuck = 0, !.i = @ + 1,
                                  !.px = pose.x, !.pz = pose.z]
            /\ pc' = "walk_top"
            /\ UNCHANGED <<inflight, nframes, hist>>
    /\ UNCHANGED <<ret, pose>>
    /\ UNCHANGED NavFixed

\* walk: wait(3) after the jump, then the recovery burst
WalkJumped ==
    /\ pc = "walk_jump_wait" /\ fn = "walk"
    /\ sim = "any" /\ pose' \in NavPoses(fn)
    /\ NavSend(MoveAction(Tenths(10), Tenths(5), 800))
    /\ hist' = Noted(hist, nframes + 3)
    /\ pc' = "walk_recov_wait"
    /\ UNCHANGED <<loc, ret>>
    /\ UNCHANGED NavFixed

\* walk: wait(20) after the recovery burst, stuck = 0, the next cycle
WalkRecovered ==
    /\ pc = "walk_recov_wait" /\ fn = "walk"
    /\ NavRecv(20)
    /\ loc' = [loc EXCEPT !.stuck = 0, !.i = @ + 1, !.px = pose'.x, !.pz = pose'.z]
    /\ pc' = "walk_top"
    /\ UNCHANGED <<ret, inflight, hist>>
    /\ UNCHANGED NavFixed

\* the move time without its cap
MoveMs_Uncapped(d2) == ISqrt((25 * d2) \div 4)

\* move_to_position: move_time = min(int(dist * 250), 2000)
MoveMs(d2) == Min(ISqrt((25 * d2) \div 4), 2000)

\* HouseBuilder.move: wait_ticks = max(2, int(duration_ms / 50))
MoveWaitTicks(ms) == Max(2, ms \div TickMs)

\* move_to_position: dist < tolerance
MoveArrived(d2, tol) == d2 < tol * tol

\* move_to_position: the head of the loop up to the look it sends
MoveTop ==
    /\ pc = "mtp_top" /\ fn = "move_to_position"
    /\ IF Exhausted(loc.i, args.cap)
       THEN /\ Return(FALSE)
            /\ UNCHANGED <<loc, inflight, nframes, hist>>
       ELSE IF MoveArrived(Remaining2(pose), args.tol)
       THEN /\ Return(TRUE)
            /\ UNCHANGED <<loc, inflight, nframes, hist>>
       ELSE LET target_yaw == ATan2(args.tz - pose.z, args.tx - pose.x)
            IN  /\ NavSend(LookAction(normalize_angle(target_yaw - pose.yaw),
                                      -pose.pitch))
                /\ hist' = Noted(hist, nframes)
                /\ loc' = [loc EXCEPT !.rem2 = Remaining2(pose)]
                /\ pc' = "mtp_look_wait"
                /\ UNCHANGED ret
    /\ UNCHANGED <<pose>>
    /\ UNCHANGED NavFixed

\* move_to_position: one frame after the look, then move(1.0, 0, move_time)
MoveLooked ==
    /\ pc = "mtp_look_wait" /\ fn = "move_to_position"
    /\ sim = "any" /\ pose' \in NavPoses(fn)
    /\ NavSend(MoveAction(Tenths(10), Tenths(0), MoveMs(loc.rem2)))
    /\ hist' = Noted(hist, nframes + 1)
    /\ pc' = "mtp_move_wait"
    /\ UNCHANGED <<loc, ret>>
    /\ UNCHANGED NavFixed

\* HouseBuilder.move: the frames it waits, then the next attempt
MoveMoved ==
    /\ pc = "mtp_move_wait" /\ fn = "move_to_position"
    /\ NavRecv(MoveWaitTicks(inflight.duration))
    /\ loc' = [loc EXCEPT !.i = @ + 1]
    /\ pc' = "mtp_top"
    /\ UNCHANGED <<ret, inflight, hist>>
    /\ UNCHANGED NavFixed

\* the bands with their lower ends included
NavigateMs_Closed(d2) ==
    IF d2 >= Blocks(10) * Blocks(10) THEN 1500
    ELSE IF d2 >= Blocks(5) * Blocks(5) THEN 1000
    ELSE IF d2 >= Blocks(2) * Blocks(2) THEN 500
    ELSE 250

\* navigate_to: walk_time_ms by the band of the remaining distance
NavigateMs(d2) ==
    IF d2 > Blocks(10) * Blocks(10) THEN 1500
    ELSE IF d2 > Blocks(5) * Blocks(5) THEN 1000
    ELSE IF d2 > Blocks(2) * Blocks(2) THEN 500
    ELSE 250

\* the stuck test never true
NavigateSlow_Never(m2) == FALSE

\* navigate_to: moved < 0.3
NavigateSlow(m2) == m2 < Centi(30) * Centi(30)

\* navigate_to returns its result dict
NavigateResult(l, p) ==
    [corrections |-> l.corr, jump_count |-> l.jumps, final_error2 |-> Remaining2(p)]

\* face_direction(target_yaw, tolerance=2.0) from its test onward, with the
\* pose p of the latest frame, n frames after the last action; when the
\* loop is left (its counter is no more), the forward burst
NavigateFace(p, l, n) ==
    LET delta == normalize_angle(l.yaw - p.yaw)
    IN  /\ IF l.fstep < FaceMaxSteps /\ Abs(delta) > Deg(2)
           THEN /\ NavSend(LookAction(delta, -p.pitch))
                /\ loc' = l
                /\ pc' = "nav_face_wait"
           ELSE /\ NavSend(MoveAction(Tenths(10), Tenths(0), NavigateMs(l.rem2)))
                /\ loc' = [l EXCEPT !.fstep = 0]
                /\ pc' = "nav_burst_wait"
        /\ hist' = Noted(hist, n)

\* navigate_to: the head of the loop
NavigateTop ==
    /\ pc = "nav_top" /\ fn = "navigate_to"
    /\ IF Exhausted(loc.i, args.cap) \/ Remaining2(pose) <= args.tol * args.tol
       THEN /\ Return(NavigateResult(loc, pose))
            /\ UNCHANGED <<loc, inflight, nframes, hist>>
       ELSE /\ NavigateFace(pose,
                            [loc EXCEPT !.rem2 = Remaining2(pose),
                                        !.yaw = calc_yaw_to_target(pose.x, pose.z,
                                                                   args.tx, args.tz),
                                        !.fstep = 0],
                            nframes)
            /\ UNCHANGED ret
    /\ UNCHANGED <<pose>>
    /\ UNCHANGED NavFixed

\* face_direction: the two frames after a look, steps += 1, the next test
NavigateFaceSettle ==
    /\ pc = "nav_face_wait" /\ fn = "navigate_to"
    /\ sim = "any"
    /\ \E p \in NavPoses(fn) :
          /\ pose' = p
          /\ NavigateFace(p, [loc EXCEPT !.fstep = @ + 1], nframes + SettleTicks)
    /\ UNCHANGED ret
    /\ UNCHANGED NavFixed

\* navigate_to: the frames after the burst, corrections += 1
NavigateBurstWait ==
    /\ pc = "nav_burst_wait" /\ fn = "navigate_to"
    /\ NavRecv(BurstWaitTicks(inflight.duration))
    /\ loc' = [loc EXCEPT !.corr = @ + 1]
    /\ pc' = "nav_measure"
    /\ UNCHANGED <<ret, inflight, hist>>
    /\ UNCHANGED NavFixed

\* navigate_to: the displacement of the burst, the stuck counter, the jump
NavigateMeasure ==
    /\ pc = "nav_measure" /\ fn = "navigate_to"
    /\ IF NavigateSlow(Dist2(loc.px, loc.pz, pose.x, pose.z))
       THEN IF loc.stuck + 1 >= 2
            THEN /\ NavSend(JumpAction)
                 /\ hist' = [Noted(hist, nframes) EXCEPT
                                !.jumpsSent = Min(@ + 1, MaxJumpsNoted)]
                 /\ loc' = [loc EXCEPT !.stuck = @ + 1]
                 /\ pc' = "nav_jump_wait"
            ELSE /\ loc' = [loc EXCEPT !.stuck = @ + 1, !.i = @ + 1,
                                       !.px = pose.x, !.pz = pose.z]
                 /\ pc' = "nav_top"
                 /\ UNCHANGED <<inflight, nframes, hist>>
       ELSE /\ loc' = [loc EXCEPT !.stuck = 0, !.i = @ + 1,
                                  !.px = pose.x, !.pz = pose.z]
            /\ hist' = [hist EXCEPT !.good = @ \/ loc.jumps > 0]
            /\ pc' = "nav_top"
            /\ UNCHANGED <<inflight, nframes>>
    /\ UNCHANGED <<ret, pose>>
    /\ UNCHANGED NavFixed

\* navigate_to: one frame after the jump, then the forward burst
NavigateJumped ==
    /\ pc = "nav_jump_wait" /\ fn = "navigate_to"
    /\ sim = "any" /\ pose' \in NavPoses(fn)
    /\ NavSend(MoveAction(Tenths(10), Tenths(0), 500))
    /\ hist' = Noted(hist, nframes + 1)
    /\ pc' = "nav_recov_wait"
    /\ UNCHANGED <<loc, ret>>
    /\ UNCHANGED NavFixed

\* navigate_to: 15 frames after the recovery burst, jump_count += 1,
\* stuck_count = 0, and the strafe when jump_count >= 3
NavigateRecovered ==
    /\ pc = "nav_recov_wait" /\ fn = "navigate_to"
    /\ sim = "any"
    /\ \E p \in NavPoses(fn) :
          /\ pose' = p
          /\ IF loc.jumps + 1 >= 3
             THEN /\ NavSend(MoveAction(Tenths(5), Tenths(10), 800))
                  /\ hist' = Noted(hist, nframes + 15)
                  /\ loc' = [loc EXCEPT !.jumps = @ + 1, !.stuck = 0]
                  /\ pc' = "nav_strafe_wait"
             ELSE /\ nframes' = nframes + 15
                  /\ loc' = [loc EXCEPT !.jumps = @ + 1, !.stuck = 0, !.i = @ + 1,
                                        !.px = p.x, !.pz = p.z]
                  /\ pc' = "nav_top"
                  /\ UNCHANGED <<inflight, hist>>
    /\ UNCHANGED ret
    /\ UNCHANGED NavFixed

\* navigate_to: 20 frames after the strafe, jump_count = 0, the next cycle
NavigateStrafed ==
    /\ pc = "nav_strafe_wait" /\ fn = "navigate_to"
    /\ NavRecv(20)
    /\ loc' = [loc EXCEPT !.jumps = 0, !.i = @ + 1, !.px = pose'.x, !.pz = pose'.z]
    /\ hist' = [hist EXCEPT !.good = FALSE]
    /\ pc' = "nav_top"
    /\ UNCHANGED <<ret, inflight>>
    /\ UNCHANGED NavFixed

NavNext ==
    \/ NavigateTop
    \/ NavigateFaceSettle
    \/ NavigateBurstWait
    \/ NavigateMeasure
    \/ NavigateJumped
    \/ NavigateRecovered
    \/ NavigateStrafed
    \/ WalkTop
    \/ WalkLooked
    \/ WalkBurstWait
    \/ WalkMeasure
    \/ WalkJumped
    \/ WalkRecovered
    \/ MoveTop
    \/ MoveLooked
    \/ MoveMoved

SpecNav == NavInit /\ [][NavNext]_vars

\* the positions of a navigation call at which it waits for state frames
NavWaiting ==
    pc \in {"nav_face_wait", "nav_burst_wait", "nav_jump_wait", "nav_recov_wait",
            "nav_strafe_wait", "walk_look_wait", "walk_burst_wait",
            "walk_jump_wait", "walk_recov_wait", "mtp_look_wait", "mtp_move_wait"}

\* the positions at which it computes without waiting
NavComputing ==
    pc \in {"nav_top", "nav_measure", "walk_top", "walk_measure", "mtp_top"}

\* the displacement test of the loop just measured: 0.3 in navigate_to,
\* 0.2 in walk
SlowBurst ==
    LET m2 == Dist2(loc.px, loc.pz, pose.x, pose.z)
    IN  IF fn = "navigate_to" THEN m2 < Centi(30) * Centi(30)
                              ELSE m2 < Centi(20) * Centi(20)

\* C11: the jump is sent exactly when the stuck counter reaches 2, right
\* after the second of two consecutive bursts of displacement below the
\* threshold (0.3 in navigate_to, 0.2 in walk): one slow burst sends
\* nothing, a burst at or above the threshold resets the counter to 0, the
\* jump is followed by a forward burst and the counter is 0 after it.
C11_StuckRecovery ==
    /\ [][(pc \in {"nav_measure", "walk_measure"}) =>
           (LET jumped == inflight' = JumpAction /\ nframes' = 0
            IN  /\ jumped <=> (SlowBurst /\ loc.stuck = 1)
                /\ jumped => (loc'.stuck = 2 /\ pc' \in {"nav_jump_wait", "walk_jump_wait"})
                /\ (SlowBurst /\ loc.stuck = 0) =>
                      (loc'.stuck = 1 /\ inflight' = inflight /\ nframes' = nframes)
                /\ ~SlowBurst =>
                      (loc'.stuck = 0 /\ inflight' = inflight /\ nframes' = nframes))]_vars
    /\ [][(pc \in {"nav_jump_wait", "walk_jump_wait"}) =>
            (/\ inflight'.type = "action_move" /\ inflight'.forward = Tenths(10)
             /\ pc' \in {"nav_recov_wait", "walk_recov_wait"})]_vars
    /\ [][(pc \in {"nav_recov_wait", "walk_recov_wait"}) => loc'.stuck = 0]_vars
    /\ [](fn \in {"navigate_to", "walk"} =>
            /\ loc.stuck \in 0 .. 2
            /\ loc.stuck = 2 <=> pc \in {"nav_jump_wait", "walk_jump_wait",
                                        "nav_recov_wait", "walk_recov_wait"}
            /\ inflight = JumpAction => pc \in {"nav_jump_wait", "walk_jump_wait"})

\* navigate_to has jumped after its second slow burst and sent the forward
\* burst of the recovery
C11_Witness ==
    /\ fn = "navigate_to" /\ pc = "nav_recov_wait"
    /\ loc.i = 1 /\ loc.stuck = 2 /\ loc.corr = 2
    /\ inflight = MoveAction(Tenths(10), Tenths(0), 500)

\* C12: navigate_to sends the strafing burst only when stuck persisted over
\* three recoveries: no burst of displacement at or above the threshold
\* happened since the first of the three jumps before the strafe.
C12_StrafeOnlyWhenStuckPersists ==
    (fn = "navigate_to" /\ pc = "nav_strafe_wait") => ~hist.good

\* the position of a call inside one cycle of its loop
CycleRank ==
    CASE pc \in {"nav_top", "walk_top", "mtp_top"} -> 0
      [] pc = "nav_face_wait" -> 1 + loc.fstep
      [] pc \in {"walk_look_wait", "mtp_look_wait"} -> 1
      [] pc \in {"nav_burst_wait", "walk_burst_wait", "mtp_move_wait"} -> 20
      [] pc \in {"nav_measure", "walk_measure"} -> 21
      [] pc \in {"nav_jump_wait", "walk_jump_wait"} -> 22
      [] pc \in {"nav_recov_wait", "walk_recov_wait"} -> 23
      [] pc = "nav_strafe_wait" -> 24
      [] pc = "done" -> 0

\* how far a call has got: cycles done, then the position in the cycle
NavRank ==
    IF pc = "done" THEN (args.cap + 1) * 100 ELSE loc.i * 100 + CycleRank

\* C13: a navigation call terminates whatever the frames report, as long
\* as they arrive: it does at most its cap of cycles (30 / 25 / 15) and
\* sends at most that many regular bursts, every step takes it further
\* through its bounded loop, it is never at a position without a next
\* step, and it returns a normal value.
C13_NavigationTerminates ==
    /\ [](fn \in NavFns =>
            /\ loc.i <= args.cap /\ loc.corr <= args.cap
            /\ args.cap = (CASE fn = "navigate_to" -> 30 [] fn = "walk" -> 25
                             [] fn = "move_to_position" -> 15)
            /\ (NavWaiting \/ pc \in {"nav_measure", "walk_measure"}) => loc.i < args.cap
            /\ fn = "navigate_to" => loc.corr \in {loc.i, loc.i + 1}
            /\ (sim = "any" /\ pc # "done") => (NavWaiting \/ NavComputing)
            /\ pc = "done" =>
                  IF fn = "navigate_to"
                  THEN ret.corrections <= 30 /\ ret.final_error2 >= 0
                  ELSE ret \in BOOLEAN)
    /\ [][NavRank' > NavRank]_vars

\* navigate_to with an agent that never came within tolerance: 30 bursts,
\* then the result
C13_Witness ==
    /\ fn = "navigate_to" /\ pc = "done" /\ sim = "any"
    /\ loc.i = 30 /\ ret.corrections = 30
    /\ ret.final_error2 > args.tol * args.tol

\* the last observed pose is within the tolerance of the call
WithinTolerance == Remaining2(pose) <= args.tol * args.tol

\* C14: walk / move_to_position returns True if and only if the XZ
\* distance from the last observed pose to the target is within tolerance
\* when it returns; False only when the cap was reached without arrival.
C14_OutcomeMatchesFinalState ==
    (pc = "done" /\ fn \in {"walk", "move_to_position"}) =>
        (ret = TRUE <=> WithinTolerance)

\* C15: a cycle that starts with the remaining distance at or below the
\* tolerance stops the call as arrived and sends no action; a call started
\* within tolerance sends no action at all.
C15_ArrivedSendsNothing ==
    /\ [][(pc \in {"nav_top", "walk_top", "mtp_top"} /\ loc.i < args.cap
           /\ WithinTolerance) =>
            (/\ pc' = "done"
             /\ inflight' = inflight /\ nframes' = nframes
             /\ hist'.acted = hist.acted
             /\ fn # "navigate_to" => ret' = TRUE)]_vars
    /\ [](fn \in NavFns => (hist.entryWithin => ~hist.acted))

\* C16: the regular burst of navigate_to lasts 1500 ms when more than 10
\* blocks remain, 1000 ms when more than 5 and at most 10, 500 ms when more
\* than 2 and at most 5, 250 ms otherwise, with forward 1.0 and strafe 0.0.
C16_BurstBands ==
    (fn = "navigate_to" /\ pc = "nav_burst_wait") =>
        /\ inflight.type = "action_move"
        /\ inflight.forward = Tenths(10) /\ inflight.strafe = Tenths(0)
        /\ loc.rem2 > Blocks(10) * Blocks(10) => inflight.duration = 1500
        /\ (loc.rem2 > Blocks(5) * Blocks(5) /\ loc.rem2 <= Blocks(10) * Blocks(10))
              => inflight.duration = 1000
        /\ (loc.rem2 > Blocks(2) * Blocks(2) /\ loc.rem2 <= Blocks(5) * Blocks(5))
              => inflight.duration = 500
        /\ loc.rem2 <= Blocks(2) * Blocks(2) => inflight.duration = 250

\* exactly 10 blocks remain: the burst is 1000 ms
C16_Witness ==
    /\ fn = "navigate_to" /\ pc = "nav_burst_wait"
    /\ loc.rem2 = Blocks(10) * Blocks(10)
    /\ inflight = MoveAction(Tenths(10), Tenths(0), 1000)

\* the duration of the regular burst of loop f at squared distance d2
RegularMs(f, d2) ==
    CASE f = "navigate_to" -> NavigateMs(d2)
      [] f = "walk" -> WalkMs(d2)
      [] f = "move_to_position" -> MoveMs(d2)

\* distances from 0 to 13 blocks in steps of a tenth of a block
DenseDistances == {Centi(10) * k : k \in 0 .. 130}

\* C17: every burst a navigation loop sends, recovery bursts included,
\* lasts at most 2000 ms, and the regular burst never gets shorter as the
\* remaining distance gets longer.
C17_BurstCappedMonotone ==
    fn \in NavFns =>
        /\ inflight.type = "action_move" =>
              (inflight.duration > 0 /\ inflight.duration <= 2000)
        /\ pc \in {"nav_burst_wait", "walk_burst_wait", "mtp_move_wait"} =>
              /\ inflight.duration = RegularMs(fn, loc.rem2)
              /\ \A d \in NavDistances(fn) :
                    d * d <= loc.rem2 => RegularMs(fn, d * d) <= inflight.duration
        /\ (pc = NavStart(fn) /\ loc.i = 0) =>
              \A d \in DenseDistances :
                  RegularMs(fn, d * d) <= RegularMs(fn, (d + Centi(10)) * (d + Centi(10)))

\* move_to_position 9 blocks away: 2250 ms capped to 2000
C17_Witness ==
    /\ fn = "move_to_position" /\ pc = "mtp_move_wait"
    /\ loc.rem2 = Blocks(9) * Blocks(9)
    /\ inflight.duration = 2000

\* C18: after a burst of d ms the controller receives at least d/50
\* frames and some more before it measures or sends the next action.
C18_BurstSettles ==
    fn \in NavFns =>
        /\ ~hist.short
        /\ ((NavComputing \/ pc = "done") /\ inflight.type = "action_move") =>
              nframes * TickMs > inflight.duration

\* C19: no action is sent while the effect of the one sent before it is
\* still going on.
C19_NoOverlappingActions == fn \in NavFns => ~hist.overlap

\* C20: no wait is indefinite: when the state frames stop arriving the
\* controller is not left at a wait for the next frame.
C20_NoIndefiniteWait == fn \in NavFns => ~(sim = "silent" /\ NavWaiting)

\* C27: in navigate_to every regular forward burst is sent with the
\* observed heading error, the normalized difference between the bearing to
\* the target and the observed yaw, within 2 degrees.
C27_BurstOnlyWhenAligned ==
    (fn = "navigate_to" /\ pc = "nav_burst_wait") =>
        Abs(normalize_angle(calc_yaw_to_target(pose.x, pose.z, args.tx, args.tz)
                            - pose.yaw)) <= Deg(2)

----------------------------------------------------------------------------
(* Specification SpecFrame: the client end of the socket.  A HouseBuilder  *)
(* or a Builder receives messages and sends actions; the simulation sends  *)
(* state frames and messages of other types, and answers each use or       *)
(* attack action with at most one result, in any later state frame.        *)

\* state frames the simulation sends in one run: enough for an attack to
\* time out (6 frames) and a place to poll its 10 frames after it
MaxTick == 16

FrameClients == {"HouseBuilder", "Builder"}

\* the frame fields after __init__: tick 0 and empty dicts
FrameFields(tick, ui) ==
    [tick |-> tick, ui |-> ui, polls |-> 0, id |-> 0, sentAt |-> 0]

\* the latest observed frame held by the client
LatestFrame == [tick |-> loc.tick, pose |-> pose, raycast |-> raycast, ui |-> loc.ui]

\* what recv_state / recv store from the state message m
FrameOf(m) ==
    [tick |-> m.tick, pose |-> m.pose,
     raycast |-> Get(m, "raycast", EmptyDict),
     ui |-> Get(m, "ui_state", EmptyDict)]

\* a message is taken for a state frame when it carries a pose
IsStateMessage_HasPose(m) == "pose" \in DOMAIN m

\* msg.get("type") == "state"
IsStateMessage(m) == Get(m, "type", None) = "state"

FramePoses == {PoseAt(EyePos, Deg(0), Deg(0)), PoseAt(EyePos, Deg(90), Deg(30))}
FrameUi == [on_ground |-> TRUE]

\* last_action_result of the next state frame: the result of one of the
\* actions still unanswered.  The field "of" is not on the wire: it records
\* the action the simulation produced the result for.
PendingResults == {[success |-> TRUE, of |-> k] : k \in sim.pending}

\* the messages the simulation may send next: the state frame of the next
\* tick, with or without raycast, ui_state and last_action_result, or a
\* message of another type, with or without the fields of a state frame
StateMessages ==
    LET base == {[type |-> "state", tick |-> sim.tick + 1, pose |-> p] : p \in FramePoses}
        withRay == base \cup {[k \in DOMAIN b \cup {"raycast"} |->
                                 IF k = "raycast" THEN RayTop ELSE b[k]] : b \in base}
        withUi == withRay \cup {[k \in DOMAIN b \cup {"ui_state"} |->
                                   IF k = "ui_state" THEN FrameUi ELSE b[k]] : b \in withRay}
    IN  withUi \cup {[k \in DOMAIN b \cup {"last_action_result"} |->
                        IF k = "last_action_result" THEN r ELSE b[k]] :
                     b \in withUi, r \in PendingResults}

OtherMessages ==
    {[type |-> "hello"],
     [type |-> "event", tick |-> sim.tick + 1, pose |-> PoseAt(EyePos, Deg(180), Deg(0)),
      raycast |-> RayNone, ui_state |-> EmptyDict]}

FrameInit ==
    /\ args \in [client : FrameClients]
    /\ fn = None /\ pc = "idle" /\ ret = None
    /\ loc = FrameFields(0, EmptyDict)
    /\ pose = EmptyDict /\ raycast = EmptyDict
    /\ result = NoResult
    /\ inflight = NoAction /\ sent = NoSent
    /\ sim = [tick |-> 0, pending |-> {}]
    /\ hist = [state |-> NoResult, skipped |-> FALSE]
    /\ wait = NoWait /\ nframes = 0 /\ bk = NoBook /\ out = None

\* HouseBuilder.send_action / Builder.cmd / NavTester.send: ws.send only
SendAction ==
    /\ pc = "idle"
    /\ \E a \in {LookAction(Deg(90), Deg(0)), [type |-> "action_jump"]} :
          inflight' = a
    /\ fn' = IF args.client = "Builder" THEN "cmd" ELSE "send_action"
    /\ UNCHANGED <<args, loc, ret, pose, raycast, result, wait, sent, nframes,
                   sim, bk, out, hist, pc>>

\* the caller awaits recv_state() / recv()
CallRecv ==
    /\ pc = "idle"
    /\ sim.tick < MaxTick
    /\ fn' = IF args.client = "Builder" THEN "recv" ELSE "recv_state"
    /\ pc' = "recv"
    /\ UNCHANGED <<args, loc, ret, pose, raycast, result, wait, sent, inflight,
                   nframes, sim, bk, out, hist>>

\* Builder.recv: "r = m.get('last_action_result'); if r is not None:
\* self.result = r"; HouseBuilder.recv_state does not read the field
ResultAfter(m) ==
    IF args.client = "Builder" /\ "last_action_result" \in DOMAIN m
    THEN Some(m.last_action_result)
    ELSE result

\* the body of "if msg.get('type') == 'state':" for the state message m
StoreFrame(m, polls) ==
    /\ loc' = [loc EXCEPT !.tick = m.tick, !.ui = Get(m, "ui_state", EmptyDict),
                          !.polls = polls]
    /\ pose' = m.pose
    /\ raycast' = Get(m, "raycast", EmptyDict)
    /\ result' = ResultAfter(m)

\* the simulation after sending m
SimAfter(m) ==
    IF Get(m, "type", None) = "state"
    THEN [tick |-> m.tick,
          pending |-> IF "last_action_result" \in DOMAIN m
                      THEN sim.pending \ {m.last_action_result.of}
                      ELSE sim.pending]
    ELSE sim

\* what the history records of message m: the last state frame sent, and
\* whether a message of another type came after it
HistAfter(m) ==
    IF Get(m, "type", None) = "state"
    THEN [state |-> Some(m), skipped |-> FALSE]
    ELSE [hist EXCEPT !.skipped = TRUE]

\* recv_state / recv: one pass of "while True": the next message
RecvMessage ==
    /\ pc = "recv"
    /\ \E m \in StateMessages \cup OtherMessages :
          /\ sim' = SimAfter(m)
          /\ hist' = HistAfter(m)
          /\ IF IsStateMessage(m)
             THEN /\ StoreFrame(m, 0)
                  /\ pc' = "idle" /\ ret' = m
             ELSE /\ pc' = "recv"
                  /\ UNCHANGED <<loc, pose, raycast, result, ret>>
    /\ UNCHANGED <<fn, args, wait, sent, inflight, nframes, bk, out>>

\* place / attack that leave the stored result as it is
CallPoll_NoClear(f, action, kind) ==
    /\ pc = "idle" /\ args.client = "Builder"
    /\ sent.use + sent.attack < MaxCalls
    /\ sim.tick + PollBound(f) <= MaxTick
    /\ fn' = f
    /\ inflight' = [type |-> action]
    /\ sent' = [sent EXCEPT ![kind] = @ + 1]
    /\ loc' = [loc EXCEPT !.polls = 0, !.id = sent.use + sent.attack + 1,
                          !.sentAt = loc.tick]
    /\ sim' = [sim EXCEPT !.pending = @ \cup {sent.use + sent.attack + 1}]
    /\ pc' = "poll"
    /\ UNCHANGED <<args, ret, pose, raycast, result, wait, nframes, bk, out, hist>>

\* Builder.place / Builder.attack up to the first recv; loc.sentAt notes
\* the tick of the latest frame held when the action is sent
CallPoll(f, action, kind) ==
    /\ pc = "idle" /\ args.client = "Builder"
    /\ sent.use + sent.attack < MaxCalls
    /\ sim.tick + PollBound(f) <= MaxTick
    /\ fn' = f
    /\ result' = NoResult
    /\ inflight' = [type |-> action]
    /\ sent' = [sent EXCEPT ![kind] = @ + 1]
    /\ loc' = [loc EXCEPT !.polls = 0, !.id = sent.use + sent.attack + 1,
                          !.sentAt = loc.tick]
    /\ sim' = [sim EXCEPT !.pending = @ \cup {sent.use + sent.attack + 1}]
    /\ pc' = "poll"
    /\ UNCHANGED <<args, ret, pose, raycast, wait, nframes, bk, out, hist>>

CallPlace == CallPoll("place", "action_use", "use")
CallAttack == CallPoll("attack", "action_attack", "attack")

\* Builder.place / Builder.attack: the next message inside the recv of one
\* pass of the polling loop, the test of self.result, and the return
PollMessage ==
    /\ pc = "poll"
    /\ \E m \in StateMessages \cup OtherMessages :
          /\ sim' = SimAfter(m)
          /\ hist' = HistAfter(m)
          /\ IF IsStateMessage(m)
             THEN LET last == ResultAfter(m) # NoResult
                              \/ loc.polls + 1 >= PollBound(fn)
                  IN  /\ StoreFrame(m, IF last THEN 0 ELSE loc.polls + 1)
                      /\ IF last
                         THEN pc' = "idle" /\ ret' = ResultAfter(m)
                         ELSE pc' = "poll" /\ UNCHANGED ret
             ELSE /\ pc' = "poll"
                  /\ UNCHANGED <<loc, pose, raycast, result, ret>>
    /\ UNCHANGED <<fn, args, wait, sent, inflight, nframes, bk, out>>

FrameNext ==
    \/ SendAction
    \/ CallRecv
    \/ RecvMessage
    \/ CallPlace
    \/ CallAttack
    \/ PollMessage

SpecFrame == FrameInit /\ [][FrameNext]_vars

\* C21: the latest observed frame (tick, pose, raycast, ui state) is at
\* every moment what the last message of type state received so far gives,
\* all four fields from that one message, and the values of __init__ before
\* the first; so it changes only when a state message is received, messages
\* of other types leave it alone, and sending an action leaves it alone.
C21_FrameWrittenOnlyByReceive ==
    /\ [](LatestFrame = IF hist.state = NoResult
                        THEN [tick |-> 0, pose |-> EmptyDict,
                              raycast |-> EmptyDict, ui |-> EmptyDict]
                        ELSE FrameOf(hist.state[1]))
    /\ [][(hist'.state = hist.state) => (LatestFrame' = LatestFrame)]_vars

\* a Builder that holds a frame without raycast, has since been sent a
\* message of another type that carries a pose, and has sent a look action
C21_Witness ==
    /\ args.client = "Builder" /\ pc = "recv"
    /\ hist.state # NoResult /\ hist.skipped
    /\ inflight.type = "action_look"
    /\ loc.tick = 2 /\ raycast = EmptyDict /\ pose.yaw = Deg(90)

\* C30: the result place() returns belongs to the use action sent in that
\* same call, never to an earlier action whose result arrives late.
C30_ResultBelongsToCall ==
    (pc = "idle" /\ fn = "place" /\ ret # NoResult) => ret[1].of = loc.id

\* C31: place() and attack() return None or the result carried by a state
\* frame received after their action was sent (here: by the frame received
\* last, whose tick is later than that of the frame held at the send); a
\* result seen in a frame received before the send is never returned.
C31_ResultFromLaterFrame ==
    [][(pc = "poll" /\ pc' = "idle" /\ ret' # NoResult) =>
          /\ "last_action_result" \in DOMAIN hist'.state[1]
          /\ ret' = Some(hist'.state[1].last_action_result)
          /\ hist'.state[1].tick > loc.sentAt]_vars

\* place returned the result of its own use action after the result of the
\* attack before it had been seen in an earlier frame
C31_Witness ==
    /\ pc = "idle" /\ fn = "place" /\ sent.attack = 1
    /\ ret = Some([success |-> TRUE, of |-> 2])
    /\ loc.id = 2 /\ sim.pending = {}

\* C33: the jump_count in the result of navigate_to equals the number of
\* jump actions sent during the call.
C33_JumpCountIsJumpsSent ==
    (pc = "done" /\ fn = "navigate_to") => ret.jump_count = hist.jumpsSent

----------------------------------------------------------------------------
(* Specification SpecTrace: the trace test_correction_convergence builds   *)
(* for one target, on residuals in hundred-thousandths of a degree, so     *)
(* that round(residual, 4) is not the identity.  The simulation may leave  *)
(* any of the residuals of TraceResiduals after a look.                    *)

\* a residual of n hundred-thousandths of a degree
Fine(n) == n

\* residuals well inside the tolerance, just below 0.5 on either side of
\* 0.49995, at 0.5 and above it
TraceResiduals == {Fine(12000), Fine(49994), Fine(49996), Fine(50000),
                   Fine(73000)}

\* round(r, 4), in ten-thousandths of a degree (no residual of
\* TraceResiduals is a tie)
Round4(r) == (r + 5) \div 10

\* residual < 0.5 on an unrounded residual
TraceWithin(r) == r < Fine(50000)

\* x < 0.5 on a value rounded to four decimals
BelowHalfRounded(x) == x < 5000

TraceInit ==
    /\ fn = "test_correction_convergence" /\ pc = "trace_head" /\ ret = None
    /\ args = ConvTarget
    /\ loc \in [attempt : {0}, iterations : {<<>>}, residual : TraceResiduals]
    /\ inflight = NoAction /\ sent = NoSent
    /\ pose = None /\ raycast = None /\ result = None
    /\ wait = NoWait /\ nframes = 0
    /\ sim = "any" /\ bk = NoBook /\ out = None /\ hist = None

\* converged, iterations, final_residual and iteration_details of the result
TraceResult(its) ==
    LET last == its[Len(its)]
    IN  [converged |-> \E k \in 1 .. Len(its) : its[k].converged,
         iterations |-> Len(its),
         final_residual |-> IF "residual_after" \in DOMAIN last
                            THEN last.residual_after
                            ELSE last.residual_before,
         iteration_details |-> its]

\* the head of an iteration: the residual of the observed pose, the entry
\* and break when it is below 0.5, else the look action
TraceMeasure ==
    /\ pc = "trace_head" /\ loc.attempt < TccMaxAttempts
    /\ IF TraceWithin(loc.residual)
       THEN LET its == Append(loc.iterations,
                              [attempt |-> loc.attempt,
                               residual_before |-> Round4(loc.residual),
                               converged |-> TRUE])
            IN  /\ loc' = [loc EXCEPT !.iterations = its]
                /\ Return(TraceResult(its))
                /\ UNCHANGED <<inflight, sent>>
       ELSE /\ Send([type |-> "action_look"], "look")
            /\ pc' = "trace_after"
            /\ UNCHANGED <<loc, ret>>
    /\ UNCHANGED <<fn, args, pose, raycast, result, wait, nframes, sim, bk, out, hist>>

\* wait_ticks(2), the residual after the look, the entry, and the end of
\* the loop when it is below 0.5 or range(10) is used up
TraceAfter ==
    /\ pc = "trace_after"
    /\ \E r \in TraceResiduals :
          LET its == Append(loc.iterations,
                            [attempt |-> loc.attempt,
                             residual_before |-> Round4(loc.residual),
                             residual_after |-> Round4(r),
                             converged |-> TraceWithin(r)])
          IN  /\ loc' = [attempt |-> loc.attempt + 1, iterations |-> its,
                         residual |-> r]
              /\ IF TraceWithin(r) \/ loc.attempt + 1 >= TccMaxAttempts
                 THEN Return(TraceResult(its))
                 ELSE pc' = "trace_head" /\ UNCHANGED ret
    /\ inflight' = NoAction
    /\ UNCHANGED <<fn, args, pose, raycast, result, wait, sent, nframes, sim,
                   bk, out, hist>>

TraceNext == TraceMeasure \/ TraceAfter

SpecTrace == TraceInit /\ [][TraceNext]_vars

\* C34: in the result of test_correction_convergence only the last
\* iteration can be marked converged, the number of iterations is between
\* 1 and 10, and converged is true exactly when the final residual of the
\* trace (residual_after of the last iteration, or its residual_before when
\* it sent nothing) is below 0.5 degrees.
C34_TraceShape ==
    (pc = "done" /\ fn = "test_correction_convergence"
       /\ "iteration_details" \in DOMAIN ret) =>
        /\ \A k \in 1 .. Len(ret.iteration_details) - 1 :
              ~ret.iteration_details[k].converged
        /\ ret.iterations >= 1 /\ ret.iterations <= 10
        /\ ret.converged <=> BelowHalfRounded(ret.final_residual)

----------------------------------------------------------------------------
(* Specification SpecBuild: one call of build_wall.Builder.build.  Each    *)
(* step is one task of build (the hotbar check, a walk, the aim of a       *)
(* place_on_top, its placement, one neighbour of the row-3 fallback, one   *)
(* jump_place_below, one cleanup pass, one verification aim); the frames   *)
(* received inside a step carry any raycast of BuildRays and the result    *)
(* returned by place() / attack() is any of BuildResults.  The frame by    *)
(* frame course of place_on_top is the subject of SpecPlace, that of walk  *)
(* of SpecNav.                                                             *)

\* EYE_HEIGHT = 1.62
EYE_HEIGHT == Centi(162)

\* int(x): the whole blocks of x, truncated toward zero
IntBlocks(x) == IF x >= 0 THEN x \div Blocks(1) ELSE -((-x) \div Blocks(1))

\* Builder.ground: round(self.pose['y'] - EYE_HEIGHT), in blocks; round
\* takes a tie to the even neighbour
Ground(p) ==
    LET v == p.y - EYE_HEIGHT
        f == v \div Blocks(1)
        r == v % Blocks(1)
    IN  IF r > Centi(50) THEN f + 1
        ELSE IF r < Centi(50) THEN f
        ELSE IF f % 2 = 0 THEN f ELSE f + 1

\* gy, wx, z0 of build
BuildPlan(p) == [gy |-> Ground(p), wx |-> IntBlocks(p.x) + 3, z0 |-> IntBlocks(p.z) - 1]

\* the wall cell of row and col (both 0 .. 2): (wx, gy + 1 + row, z0 + col)
WallCell(row, col) ==
    LET plan == BuildPlan(pose)
    IN  <<plan.wx, plan.gy + 1 + row, plan.z0 + col>>

BuildHotbars == {<<"dirt", "stone", "stone">>, <<"dirt">>, <<>>}
BuildRays == {RayTop, RaySide, RayGrass, RayNone}

\* what place() / attack() may return for an action aimed at cell c
BuildResults(c) ==
    {NoResult,
     Some([success |-> TRUE, pos |-> c]),
     Some([success |-> TRUE, pos |-> <<c[1], c[2], c[3] + 1>>]),
     Some([success |-> FALSE])}

\* a hotbar without stone taken for slot 0
StoneSlot_Default(hotbar) ==
    IF \E k \in 1 .. Len(hotbar) : hotbar[k] = "stone"
    THEN Some(CHOOSE k \in 1 .. Len(hotbar) :
                 /\ hotbar[k] = "stone"
                 /\ \A j \in 1 .. k - 1 : hotbar[j] # "stone")
    ELSE Some(1)

\* next((i for i, n in enumerate(self.hotbar) if n == "stone"), None), as
\* NoResult for None and the position in the sequence otherwise
StoneSlot(hotbar) ==
    IF \E k \in 1 .. Len(hotbar) : hotbar[k] = "stone"
    THEN Some(CHOOSE k \in 1 .. Len(hotbar) :
                 /\ hotbar[k] = "stone"
                 /\ \A j \in 1 .. k - 1 : hotbar[j] # "stone")
    ELSE NoResult

\* the ranks of the tasks of build, in the order of its text: rows 1 and 2,
\* pillar_up, row 3, the cleanup, the verification
RankRow(row) == IF row = 0 THEN 1 ELSE IF row = 1 THEN 2 ELSE 4
RankOf(task) ==
    CASE task = "pillar" -> 3
      [] task = "cleanup" -> 5
      [] task = "verify" -> 6

\* the history notes a task of rank r: hist.sorted stays true while no task
\* comes after one of higher rank
Ranked(h, r) == [h EXCEPT !.sorted = @ /\ r >= h.last, !.last = r]

BuildLocals(hotbar) == [hotbar |-> hotbar, row |-> 0, col |-> 0, nb |-> 0, i |-> 0]

\* The history notes the actions by what the claims ask of them: whether
\* any was sent (acted), the attacks (sent.attack) and the raycast each was
\* decided on (attackRay), the jump_place_below calls and their successes.
\* self.ray and self.result are read only inside the step that received
\* them, so the steps take them as inputs and the variables are not kept.
BuildInit ==
    /\ fn = "build" /\ pc = "b_start" /\ ret = None /\ args = None
    /\ loc \in {BuildLocals(h) : h \in BuildHotbars}
    /\ pose = PoseAt(EyePos, Deg(0), Deg(0))
    /\ raycast = RayNone /\ result = NoResult
    /\ inflight = NoAction /\ sent = NoSent /\ bk = NoBook
    /\ hist = [last |-> 0, sorted |-> TRUE, pillars |-> 0, pillarOk |-> 0,
               acted |-> FALSE, attackRay |-> RayTop]
    /\ wait = NoWait /\ nframes = 0 /\ sim = "any" /\ out = None

BuildFixed == <<fn, args, pose, raycast, result, inflight, wait, nframes, sim, out>>

\* build up to the first walk: the hotbar check, the hotbar select, wait(2)
BuildStart ==
    /\ pc = "b_start" /\ fn = "build"
    /\ IF StoneSlot(loc.hotbar) = NoResult
       THEN /\ Return(FALSE)
            /\ UNCHANGED hist
       ELSE /\ hist' = [hist EXCEPT !.acted = TRUE]
            /\ pc' = "b_walk1"
            /\ UNCHANGED ret
    /\ UNCHANGED <<loc, sent, bk>>
    /\ UNCHANGED BuildFixed

\* the three walks of build
BuildWalk ==
    /\ pc \in {"b_walk1", "b_walk2", "b_walk3"} /\ fn = "build"
    /\ pc' = CASE pc = "b_walk1" -> "b_place"
               [] pc = "b_walk2" -> "b_pillar"
               [] pc = "b_walk3" -> "b_verify"
    /\ loc' = [loc EXCEPT !.row = IF pc = "b_walk2" THEN 2 ELSE 0, !.col = 0, !.i = 0]
    /\ UNCHANGED <<ret, sent, bk, hist>>
    /\ UNCHANGED BuildFixed

\* the loops of build taken column by column
Advance_ColumnMajor(row, col) ==
    IF row = 0 THEN [pc |-> "b_place", row |-> 1, col |-> col]
    ELSE IF row = 1
    THEN (IF col < 2 THEN [pc |-> "b_place", row |-> 0, col |-> col + 1]
          ELSE [pc |-> "b_walk2", row |-> 2, col |-> 0])
    ELSE IF col < 2 THEN [pc |-> "b_place", row |-> 2, col |-> col + 1]
    ELSE [pc |-> "b_cleanup", row |-> 0, col |-> 0]

\* where build goes after the cell (row, col): "for row in range(2): for col
\* in range(3)", the pillar, "for col in range(3)" of row 3, the cleanup
Advance(row, col) ==
    IF col < 2 THEN [pc |-> "b_place", row |-> row, col |-> col + 1]
    ELSE IF row = 0 THEN [pc |-> "b_place", row |-> 1, col |-> 0]
    ELSE IF row = 1 THEN [pc |-> "b_walk2", row |-> 2, col |-> 0]
    ELSE [pc |-> "b_cleanup", row |-> 0, col |-> 0]

BuildGoOn(row, col) ==
    LET n == Advance(row, col)
    IN  /\ pc' = n.pc
        /\ loc' = [loc EXCEPT !.row = n.row, !.col = n.col, !.nb = 0, !.i = 0]

\* place_on_top(bx, by, bz) for ray, the raycast aim returns, and res, the
\* value place() would return: the new bookkeeping and the returned value
PlaceOnTopOutcome(b, c, ray, res) ==
    LET hit == Get(ray, "hit_type", "miss")
        normal == Get(ray, "hit_normal", "NONE")
    IN  IF hit # "block" \/ normal # "TOP"
        THEN [bk |-> [b EXCEPT !.retry = @ + 1], ok |-> FALSE]
        ELSE IF Succeeded(res) /\ PosMatch(ResultPos(res), c[1], c[2], c[3])
        THEN [bk |-> Counted(b, c[1], c[2], c[3], ResultPos(res)), ok |-> TRUE]
        ELSE [bk |-> [b EXCEPT !.retry = @ + 1], ok |-> FALSE]

\* one place_on_top call of build, and what build does with its value
BuildPlaceOnTop ==
    /\ pc = "b_place" /\ fn = "build"
    /\ \E ray \in BuildRays, res \in BuildResults(WallCell(loc.row, loc.col)) :
          LET o == PlaceOnTopOutcome(bk, WallCell(loc.row, loc.col), ray, res)
          IN  /\ bk' = o.bk
              /\ IF loc.row = 2 /\ ~o.ok
                 THEN pc' = "b_fallback" /\ loc' = [loc EXCEPT !.nb = 1]
                 ELSE BuildGoOn(loc.row, loc.col)
    /\ hist' = Ranked(hist, RankRow(loc.row))
    /\ UNCHANGED <<ret, sent>>
    /\ UNCHANGED BuildFixed

\* build, row 3: one neighbour of the fallback (north first, then south)
BuildFallback ==
    /\ pc = "b_fallback" /\ fn = "build"
    /\ LET c == WallCell(loc.row, loc.col)
       IN  \E r \in BuildRays, r2 \in BuildRays, res \in BuildResults(c) :
              LET found == Get(r, "hit_type", None) = "block"
                           /\ Get(r, "hit_id", None) = "stone"
                  placed == found /\ Get(r2, "hit_type", None) = "block"
                  counted == placed /\ Succeeded(res)
                             /\ PosMatch(ResultPos(res), c[1], c[2], c[3])
              IN  /\ bk' = IF counted THEN Counted(bk, c[1], c[2], c[3], ResultPos(res))
                           ELSE bk
                  /\ IF counted \/ loc.nb >= 2
                     THEN BuildGoOn(loc.row, loc.col)
                     ELSE pc' = "b_fallback" /\ loc' = [loc EXCEPT !.nb = @ + 1]
    /\ hist' = Ranked(hist, RankRow(loc.row))
    /\ UNCHANGED <<ret, sent>>
    /\ UNCHANGED BuildFixed

\* pillar_up(2): one jump_place_below (jump, look straight down, place)
BuildPillar ==
    /\ pc = "b_pillar" /\ fn = "build"
    /\ \E res \in BuildResults(<<0, 0, 0>>) :
          hist' = [Ranked(hist, RankOf("pillar")) EXCEPT
                      !.pillars = @ + 1,
                      !.pillarOk = IF Succeeded(res) THEN @ + 1 ELSE @]
    /\ IF loc.i + 1 >= 2
       THEN pc' = "b_place" /\ loc' = [loc EXCEPT !.i = 0]
       ELSE pc' = "b_pillar" /\ loc' = [loc EXCEPT !.i = @ + 1]
    /\ UNCHANGED <<ret, sent, bk>>
    /\ UNCHANGED BuildFixed

\* build, cleanup: one pass of "for _ in range(3)": look straight down, and
\* attack when the raycast is a stone block
BuildCleanup ==
    /\ pc = "b_cleanup" /\ fn = "build"
    /\ \E r \in BuildRays :
          IF Get(r, "hit_type", None) = "block" /\ Get(r, "hit_id", None) = "stone"
          THEN /\ sent' = [sent EXCEPT !.attack = @ + 1]
               /\ hist' = [Ranked(hist, RankOf("cleanup")) EXCEPT !.attackRay = r]
          ELSE UNCHANGED <<sent, hist>>
    /\ IF loc.i + 1 >= 3
       THEN pc' = "b_walk3" /\ loc' = [loc EXCEPT !.i = 0]
       ELSE pc' = "b_cleanup" /\ loc' = [loc EXCEPT !.i = @ + 1]
    /\ UNCHANGED <<ret, bk>>
    /\ UNCHANGED BuildFixed

\* build, verify: the aim at one wall cell, and after the ninth the summary
\* and "return correct > 0"
BuildVerify ==
    /\ pc = "b_verify" /\ fn = "build"
    /\ hist' = Ranked(hist, RankOf("verify"))
    /\ IF loc.col < 2
       THEN /\ loc' = [loc EXCEPT !.col = @ + 1]
            /\ UNCHANGED <<pc, ret>>
       ELSE IF loc.row < 2
       THEN /\ loc' = [loc EXCEPT !.row = @ + 1, !.col = 0]
            /\ UNCHANGED <<pc, ret>>
       ELSE /\ Return(Cardinality({k \in 1 .. Len(bk.log) : bk.log[k].ok}) > 0)
            /\ UNCHANGED loc
    /\ UNCHANGED <<sent, bk>>
    /\ UNCHANGED BuildFixed

BuildNext ==
    \/ BuildStart
    \/ BuildWalk
    \/ BuildPlaceOnTop
    \/ BuildFallback
    \/ BuildPillar
    \/ BuildCleanup
    \/ BuildVerify

SpecBuild == BuildInit /\ [][BuildNext]_vars

\* C35: during the cleanup of build the number of attack actions sent never
\* exceeds the number of pillar blocks whose placement was reported
\* successful, and each attack was decided on a raycast that hit a stone
\* block.
C35_CleanupRemovesOnlyPillar ==
    fn = "build" =>
        /\ sent.attack <= hist.pillarOk
        /\ hist.attackRay.hit_type = "block" /\ hist.attackRay.hit_id = "stone"

\* C36: in build, ok equals the number of log entries, every log entry has
\* ok = True, no target coordinate is logged twice, the count of correct
\* placements is at most 9, and every place_on_top call changes exactly
\* one of ok and retry, by exactly 1.
C36_Bookkeeping ==
    /\ [](/\ bk.ok = Len(bk.log)
          /\ \A k \in 1 .. Len(bk.log) : bk.log[k].ok
          /\ \A j, k \in 1 .. Len(bk.log) : j # k => bk.log[j].t # bk.log[k].t
          /\ Cardinality({k \in 1 .. Len(bk.log) : bk.log[k].ok}) <= 9)
    /\ [][(pc = "b_place") =>
             \/ bk'.ok = bk.ok + 1 /\ bk'.retry = bk.retry
             \/ bk'.ok = bk.ok /\ bk'.retry = bk.retry + 1]_vars

\* a build that logged all nine cells, one of them through the fallback
\* after its place_on_top had failed
C36_Witness ==
    /\ fn = "build" /\ pc = "done"
    /\ bk.ok = 9 /\ Len(bk.log) = 9 /\ bk.retry = 1

\* C37: the tasks of build come in the order row 1, row 2, pillar, row 3,
\* cleanup attacks, verification aims: no task follows one of a later
\* phase, and a row-3, cleanup or verification task comes only after both
\* jump_place_below calls of pillar_up.
C37_PhaseOrder ==
    fn = "build" =>
        /\ hist.sorted
        /\ hist.last >= RankRow(2) => hist.pillars = 2

\* a finished build that went through every phase: placements counted,
\* a pillar block placed, an attack in the cleanup, the verification
C37_Witness ==
    /\ fn = "build" /\ pc = "done"
    /\ hist.last = RankOf("verify") /\ hist.pillars = 2
    /\ bk.ok = 9 /\ hist.pillarOk = 2 /\ sent.attack = 2

\* C38: when the hotbar holds no stone build returns False and has sent no
\* action and started no task.
C38_NoStoneNoAction ==
    (fn = "build" /\ pc = "done"
       /\ \A k \in 1 .. Len(loc.hotbar) : loc.hotbar[k] # "stone") =>
        /\ ret = FALSE
        /\ ~hist.acted /\ sent = NoSent /\ inflight = NoAction
        /\ hist.last = 0 /\ bk = NoBook

\* build returned False on a hotbar of dirt
C38_Witness ==
    /\ fn = "build" /\ pc = "done" /\ loc.hotbar = <<"dirt">>
    /\ ret = FALSE /\ ~hist.acted

----------------------------------------------------------------------------
(* Specification SpecHouse: calls of HouseBuilder.place_block_at_ground_top *)
(* and HouseBuilder.place_block_on_top_of, one after the other, against a  *)
(* simulation that answers each look exactly or in any way at all.         *)
(* bk holds the counters blocks_placed and failed_placements; hist holds   *)
(* the counters at the entry of the running call and the number of look    *)
(* actions sent when look_at_precise returned.                             *)

MaxHouseCalls == 3

HouseFns == {"place_block_at_ground_top", "place_block_on_top_of"}

\* the block at the feet of the eye's eastern neighbour, as the arguments of
\* either function
HouseArgs(f) ==
    IF f = "place_block_at_ground_top"
    THEN {[bx |-> 2, bz |-> 0, ground_y |-> -1]}
    ELSE {[bx |-> 2, by |-> -1, bz |-> 0]}

\* target_x = bx + 0.5; target_y = ground_y + 1.0 or by + 1.0;
\* target_z = bz + 0.5
HouseTarget(f, a) ==
    [tx |-> Blocks(a.bx) + Centi(50),
     ty |-> (IF f = "place_block_at_ground_top"
             THEN Blocks(a.ground_y) ELSE Blocks(a.by)) + Blocks(1),
     tz |-> Blocks(a.bz) + Centi(50)]

HouseDelta(f, a, p) ==
    LET t == HouseTarget(f, a)
    IN  calc_look_delta(p.x, p.y, p.z, p.yaw, p.pitch, t.tx, t.ty, t.tz)

\* the orientation aimed at the target of the calls, and two others
HouseAimed ==
    LET d == HouseDelta("place_block_on_top_of",
                        [bx |-> 2, by |-> -1, bz |-> 0], PoseAt(EyePos, 0, 0))
    IN  PoseAt(EyePos, d[1], d[2])

HousePoses == {PoseAt(EyePos, 0, 0), PoseAt(EyePos, Deg(90), Deg(30)), HouseAimed}

HouseRays == {RayTop, RaySide, RayEntity, RayNone}

NoCounters == [blocks_placed |-> 0, failed_placements |-> 0]

HouseInit ==
    /\ fn \in HouseFns
    /\ args \in HouseArgs(fn)
    /\ loc = [attempt |-> 0, ray |-> RayNone]
    /\ pc = "h_look" /\ ret = None
    /\ pose \in HousePoses
    /\ raycast \in HouseRays
    /\ sim \in {"exact", "any"}
    /\ bk = NoCounters
    /\ hist = [entry |-> NoCounters, looks |-> 0]
    /\ result = None /\ wait = NoWait /\ sent = NoSent /\ inflight = NoAction
    /\ nframes = 0 /\ out = None

\* the poses the next state frame may report
HouseSimPoses ==
    IF sim = "exact"
    THEN {IF inflight.type = "action_look"
          THEN [pose EXCEPT !.yaw = @ + inflight.yaw, !.pitch = @ + inflight.pitch]
          ELSE pose}
    ELSE HousePoses

\* HouseBuilder.recv_state
HouseRecvState ==
    /\ pc = "wait" /\ fn \in HouseFns /\ wait.n > 0
    /\ \E p \in HouseSimPoses, r \in HouseRays :
          pose' = p /\ raycast' = r
    /\ inflight' = NoAction
    /\ wait' = [wait EXCEPT !.n = @ - 1]
    /\ pc' = IF wait.n = 1 THEN wait.cont ELSE "wait"
    /\ UNCHANGED <<fn, args, loc, ret, result, sent, nframes, sim, bk, out, hist>>

\* ray = await self.look_at_precise(target_x, target_y, target_z): one pass
\* of the loop, or its return into ray
HouseLookAtPrecise ==
    /\ pc = "h_look" /\ fn \in HouseFns
    /\ LET d == HouseDelta(fn, args, pose)
       IN  IF loc.attempt >= LapMaxAttempts \/ LapWithin(d)
           THEN /\ loc' = [loc EXCEPT !.ray = raycast]
                /\ pc' = "h_decide"
                /\ hist' = [hist EXCEPT !.looks = sent.look]
                /\ UNCHANGED <<wait, sent, inflight>>
           ELSE /\ SendLookAndSettle(d, "h_look")
                /\ loc' = [loc EXCEPT !.attempt = @ + 1]
                /\ UNCHANGED hist
    /\ UNCHANGED <<fn, args, ret, pose, raycast, result, nframes, sim, bk, out>>

\* the test of place_block_at_ground_top with its first branch only
GroundTopPlaces_TopOnly(ray) ==
    ray.hit_type = "block" /\ ray.hit_normal = "TOP"

\* place_block_at_ground_top: the branches that call place_block
GroundTopPlaces(ray) ==
    IF ray.hit_type = "block" /\ ray.hit_normal = "TOP"
    THEN TRUE
    ELSE IF ray.hit_type = "block"
    THEN TRUE
    ELSE FALSE

\* place_block_on_top_of: the branch that calls place_block
OnTopPlaces(ray) == ray.hit_type = "block"

\* the test on ray, and then either place_block up to its two recv_state
\* calls, or the failure counted and returned
HouseDecide ==
    /\ pc = "h_decide" /\ fn \in HouseFns
    /\ IF (IF fn = "place_block_at_ground_top"
           THEN GroundTopPlaces(loc.ray) ELSE OnTopPlaces(loc.ray))
       THEN /\ Send([type |-> "action_use"], "use")
            /\ wait' = [n |-> 2, cont |-> "h_placed"]
            /\ pc' = "wait"
            /\ UNCHANGED <<bk, ret>>
       ELSE /\ bk' = [bk EXCEPT !.failed_placements = @ + 1]
            /\ Return(FALSE)
            /\ UNCHANGED <<wait, sent, inflight>>
    /\ UNCHANGED <<fn, args, loc, pose, raycast, result, nframes, sim, out, hist>>

\* place_block: self.blocks_placed += 1, and the caller's return True
HousePlaced ==
    /\ pc = "h_placed" /\ fn \in HouseFns
    /\ bk' = [bk EXCEPT !.blocks_placed = @ + 1]
    /\ Return(TRUE)
    /\ UNCHANGED <<fn, args, loc, pose, raycast, result, wait, sent, inflight,
                   nframes, sim, out, hist>>

\* build_house: the next call
HouseCall ==
    /\ pc = "done" /\ fn \in HouseFns
    /\ bk.blocks_placed + bk.failed_placements < MaxHouseCalls
    /\ \E f \in HouseFns :
          /\ fn' = f
          /\ args' \in HouseArgs(f)
    /\ loc' = [attempt |-> 0, ray |-> RayNone]
    /\ pc' = "h_look" /\ ret' = None
    /\ hist' = [entry |-> bk, looks |-> sent.look]
    /\ UNCHANGED <<pose, raycast, result, wait, sent, inflight, nframes, sim,
                   bk, out>>

HouseNext ==
    \/ HouseRecvState
    \/ HouseLookAtPrecise
    \/ HouseDecide
    \/ HousePlaced
    \/ HouseCall

SpecHouse == HouseInit /\ [][HouseNext]_vars

\* C39: place_block_at_ground_top and place_block_on_top_of send a use
\* action exactly when the raycast returned by look_at_precise has
\* hit_type = "block", whatever the face, and send nothing otherwise; each
\* call adds 1 to exactly one of blocks_placed and failed_placements, and
\* blocks_placed is the number of use actions sent.
C39_PlacesOnAnyBlockHit ==
    fn \in HouseFns =>
        /\ bk.blocks_placed + (IF pc = "h_placed" \/ (pc = "wait" /\ wait.cont = "h_placed")
                               THEN 1 ELSE 0) = sent.use
        /\ pc = "done" =>
              IF loc.ray.hit_type = "block"
              THEN /\ ret = TRUE
                   /\ sent.use = hist.entry.blocks_placed + 1
                   /\ bk = [hist.entry EXCEPT !.blocks_placed = @ + 1]
              ELSE /\ ret = FALSE
                   /\ sent.use = hist.entry.blocks_placed
                   /\ sent.look = hist.looks
                   /\ bk = [hist.entry EXCEPT !.failed_placements = @ + 1]

\* place_block_at_ground_top placed on a block hit on its west face, after
\* a call that had failed on an entity hit from above
C39_Witness ==
    /\ fn = "place_block_at_ground_top" /\ pc = "done"
    /\ loc.ray = RaySide /\ ret = TRUE
    /\ bk = [blocks_placed |-> 1, failed_placements |-> 1]
    /\ sent.use = 1

=========================================================================
